---- MODULE Spec2Model ----
(***************************************************************************)
(* Model of the portfolio recommendation service: the MSA gateway          *)
(* (MSAClient + MockDataService), the recommendation engine                *)
(* (PortfolioService), the recommend_portfolio request handler with its    *)
(* background task, the record normalisers (MSAClient, FilePreprocessor)   *)
(* and the portfolio analyzer (analyze_user_portfolio).                    *)
(*                                                                         *)
(* Numeric scaling (floats of the source are kept as exact integers):      *)
(*   interest rates / expected_return     : tenths of a percent (3.5 -> 35)*)
(*   allocation_percentage                : whole percent (40.0 -> 40)     *)
(*   expected_total_return                : thousandths (4.7 -> 4700)      *)
(*   total_risk_score                     : hundredths (1.9 -> 190)        *)
(*   confidence_score                     : hundredths (0.85 -> 85)        *)
(***************************************************************************)
EXTENDS Integers, Sequences, FiniteSets, TLC

\* ------------------------------------------------------------------------
\* Bounds of the model
\* ------------------------------------------------------------------------
MaxRequests == 2
MaxProducts == 4

\* keys of a raw record handed to a normaliser
MaxKeys == 2

\* rows of a stored portfolio
MaxItems == 8

\* items of a portfolio handed to the risk analysis
MaxRiskItems == 2

\* keys of the container of a bank.json / policy.json document
MaxContainerKeys == 2

\* records handed to AIPreprocessingService in one call
MaxRecords == 2

\* rows of the tables users, bank_products and user_portfolios
MaxUsers == 2
MaxProductRows == 2
MaxPortfolioRows == 2

\* ------------------------------------------------------------------------
\* Python values of raw (un-normalised) records: int, str or None
\* ------------------------------------------------------------------------
Null == [t |-> "null", n |-> 0, s |-> ""]

IntV(n) == [t |-> "int", n |-> n, s |-> ""]

StrV(s) == [t |-> "str", n |-> 0, s |-> s]

\* None where a whole value (a profile, a task, an analysis) is absent
None == [none |-> TRUE]

\* dict.get(key, default)
Get(d, k, default) == IF k \in DOMAIN d THEN d[k] ELSE default

\* float(v) / int(v) succeed on a number, raise TypeError on None and
\* ValueError on a non-numeric string
NumOk(v) == v.t = "int"

\* ------------------------------------------------------------------------
\* MockDataService sample data, Korean names transliterated (description,
\* features, targetCustomer, bankCode and the amount limits are pass-through
\* fields that no operation below reads)
\* ------------------------------------------------------------------------
RawProduct(id, name, type, bank, rate, term, risk) ==
    [productId |-> StrV(id), productName |-> StrV(name), productType |-> StrV(type),
     bankName |-> StrV(bank), interestRate |-> IntV(rate), termMonths |-> IntV(term),
     riskLevel |-> IntV(risk)]

_get_mock_bank_products ==
    << RawProduct("BANK001", "term deposit", "DEPOSIT", "KB", 35, 12, 1),
       RawProduct("BANK002", "installment savings", "SAVINGS", "Shinhan", 40, 24, 1),
       RawProduct("BANK003", "youth leap account", "YOUTH_ACCOUNT", "KB", 50, 36, 2),
       RawProduct("BANK004", "equity fund", "FUND", "Woori", 70, 0, 4),
       RawProduct("BANK005", "bond fund", "BOND_FUND", "Hana", 45, 0, 2) >>

RawPolicy(id, name, amin, amax, benefit, type) ==
    [policyId |-> StrV(id), policyName |-> StrV(name), targetAgeMin |-> IntV(amin),
     targetAgeMax |-> IntV(amax), benefitAmount |-> IntV(benefit), policyType |-> StrV(type)]

_get_mock_youth_policies ==
    << RawPolicy("YOUTH001", "youth leap account", 19, 34, 5000000, "FINANCIAL_SUPPORT"),
       RawPolicy("YOUTH002", "youth housing subscription", 20, 39, 2000000, "HOUSING_SUPPORT"),
       RawPolicy("YOUTH003", "youth employment support", 18, 29, 1000000, "EMPLOYMENT_SUPPORT") >>

RawUser(id, age, assets, risk) ==
    [userId |-> IntV(id), age |-> IntV(age), totalAssets |-> IntV(assets),
     riskTolerance |-> IntV(risk)]

_get_mock_user_profiles ==
    << RawUser(1, 25, 15000000, 6), RawUser(2, 30, 50000000, 8), RawUser(3, 28, 20000000, 3) >>

\* filter of a sequence by a predicate on its elements, order kept
RECURSIVE SelectRaw(_, _, _)
SelectRaw(seq, key, val) ==
    IF seq = << >> THEN << >>
    ELSE IF Get(Head(seq), key, Null) = val
         THEN << Head(seq) >> \o SelectRaw(Tail(seq), key, val)
         ELSE SelectRaw(Tail(seq), key, val)

\* the empty dict / filters=None
NoFilters == << >>

\* MockDataService.get_bank_products(filters); filters is a dict that may
\* hold "product_type" and "bank_name"
Mock_get_bank_products(filters) ==
    LET byType == IF "product_type" \in DOMAIN filters
                  THEN SelectRaw(_get_mock_bank_products, "productType",
                                 StrV(filters["product_type"]))
                  ELSE _get_mock_bank_products
    IN IF "bank_name" \in DOMAIN filters
       THEN SelectRaw(byType, "bankName", StrV(filters["bank_name"]))
       ELSE byType

RECURSIVE SelectAge(_, _)
SelectAge(seq, age) ==
    IF seq = << >> THEN << >>
    ELSE IF Head(seq)["targetAgeMin"].n <= age /\ age <= Head(seq)["targetAgeMax"].n
         THEN << Head(seq) >> \o SelectAge(Tail(seq), age)
         ELSE SelectAge(Tail(seq), age)

\* Optional[int] argument left out (None)
NoAge == -1

\* Python truthiness of an Optional[int]: None and 0 are both falsy
Truthy(age) == age # NoAge /\ age # 0

\* MockDataService.get_youth_policies(age)
Mock_get_youth_policies(age) ==
    IF Truthy(age) THEN SelectAge(_get_mock_youth_policies, age) ELSE _get_mock_youth_policies

\* MockDataService.get_user_profile(user_id): the profile or None
Mock_get_user_profile(user_id) ==
    LET hits == { i \in DOMAIN _get_mock_user_profiles :
                     _get_mock_user_profiles[i]["userId"].n = user_id }
    IN IF hits = {} THEN Null
       ELSE _get_mock_user_profiles[CHOOSE i \in hits : \A j \in hits : i <= j]

\* ------------------------------------------------------------------------
\* MSAClient: normalisation of raw records
\* ------------------------------------------------------------------------
\* one element of MSAClient._convert_bank_products; float()/int() raise on a
\* value that is not a number
ConvertibleProduct(product) ==
    /\ NumOk(Get(product, "interestRate", IntV(0)))
    /\ NumOk(Get(product, "termMonths", IntV(0)))
    /\ NumOk(Get(product, "riskLevel", IntV(1)))

ConvertProduct(product) ==
    [product_code |-> Get(product, "productId", StrV("")),
     product_name |-> Get(product, "productName", StrV("")),
     product_type |-> Get(product, "productType", StrV("")),
     bank_name |-> Get(product, "bankName", StrV("")),
     interest_rate |-> Get(product, "interestRate", IntV(0)).n,
     term_months |-> Get(product, "termMonths", IntV(0)).n,
     risk_level |-> Get(product, "riskLevel", IntV(1)).n]

\* MSAClient._convert_bank_products: the converted list, or the error raised
\* by the first element that does not convert
_convert_bank_products(raw_products) ==
    IF \A i \in DOMAIN raw_products : ConvertibleProduct(raw_products[i])
    THEN [err |-> "none", val |-> [i \in DOMAIN raw_products |-> ConvertProduct(raw_products[i])]]
    ELSE [err |-> "TypeError", val |-> << >>]

ConvertiblePolicy(policy) ==
    /\ NumOk(Get(policy, "targetAgeMin", IntV(0)))
    /\ NumOk(Get(policy, "targetAgeMax", IntV(0)))
    /\ NumOk(Get(policy, "benefitAmount", IntV(0)))

ConvertPolicy(policy) ==
    [policy_code |-> Get(policy, "policyId", StrV("")),
     policy_name |-> Get(policy, "policyName", StrV("")),
     target_age_min |-> Get(policy, "targetAgeMin", IntV(0)).n,
     target_age_max |-> Get(policy, "targetAgeMax", IntV(0)).n,
     benefit_amount |-> Get(policy, "benefitAmount", IntV(0)).n,
     policy_type |-> Get(policy, "policyType", StrV(""))]

\* MSAClient._convert_youth_policies
_convert_youth_policies(raw_policies) ==
    IF \A i \in DOMAIN raw_policies : ConvertiblePolicy(raw_policies[i])
    THEN [err |-> "none", val |-> [i \in DOMAIN raw_policies |-> ConvertPolicy(raw_policies[i])]]
    ELSE [err |-> "TypeError", val |-> << >>]

ConvertibleUser(user_data) ==
    /\ NumOk(Get(user_data, "age", IntV(25)))
    /\ NumOk(Get(user_data, "totalAssets", IntV(0)))
    /\ NumOk(Get(user_data, "riskTolerance", IntV(5)))

\* MSAClient._convert_user_profile
_convert_user_profile(user_data) ==
    IF ConvertibleUser(user_data)
    THEN [err |-> "none",
          val |-> [id |-> Get(user_data, "userId", Get(user_data, "id", IntV(0))),
                   age |-> Get(user_data, "age", IntV(25)).n,
                   total_assets |-> Get(user_data, "totalAssets", IntV(0)).n,
                   risk_tolerance |-> Get(user_data, "riskTolerance", IntV(5)).n]]
    ELSE [err |-> "TypeError", val |-> << >>]

\* ------------------------------------------------------------------------
\* FilePreprocessor: normalisation of raw records (min_amount, max_amount,
\* features, target_customer, requirements, application_period and
\* description are left out as in ConvertProduct / ConvertPolicy)
\* ------------------------------------------------------------------------
\* Python truthiness of a raw value: None, 0 and "" are falsy
Falsy(v) == v = Null \/ v = IntV(0) \/ v = StrV("")

\* p.get(a) or p.get(b) or p.get(c, default)
OrGet(p, a, b, c, default) ==
    IF ~Falsy(Get(p, a, Null)) THEN p[a]
    ELSE IF ~Falsy(Get(p, b, Null)) THEN p[b]
    ELSE Get(p, c, default)

\* p.get(a) or p.get(b) or default
Or2(p, a, b, default) ==
    IF ~Falsy(Get(p, a, Null)) THEN p[a]
    ELSE IF ~Falsy(Get(p, b, Null)) THEN p[b]
    ELSE default

\* FilePreprocessor._normalize_bank: the record, or the ValueError of
\* float()/int() on a string that is not a number
_normalize_bank(p) ==
    LET interest_rate == Or2(p, "interestRate", "rate", IntV(0))
        term_months == Or2(p, "termMonths", "term", IntV(0))
        risk_level == Or2(p, "riskLevel", "risk", IntV(1))
    IN IF NumOk(interest_rate) /\ NumOk(term_months) /\ NumOk(risk_level)
       THEN [err |-> "none",
             val |-> [product_code |-> OrGet(p, "productId", "id", "code", StrV("")),
                      product_name |-> OrGet(p, "productName", "name", "title", StrV("")),
                      product_type |-> OrGet(p, "productType", "type", "category", StrV("")),
                      bank_name |-> OrGet(p, "bankName", "bank", "issuer", StrV("")),
                      interest_rate |-> interest_rate.n,
                      term_months |-> term_months.n,
                      risk_level |-> risk_level.n]]
       ELSE [err |-> "ValueError", val |-> << >>]

\* FilePreprocessor._normalize_policy
_normalize_policy(p) ==
    LET target_age_min == Or2(p, "targetAgeMin", "sprtTrgtMinAge", IntV(0))
        target_age_max == Or2(p, "targetAgeMax", "sprtTrgtMaxAge", IntV(0))
        benefit_amount == Or2(p, "benefitAmount", "bnftAmt", IntV(0))
    IN IF NumOk(target_age_min) /\ NumOk(target_age_max) /\ NumOk(benefit_amount)
       THEN [err |-> "none",
             val |-> [policy_code |-> OrGet(p, "policyId", "plcyNo", "id", StrV("")),
                      policy_name |-> OrGet(p, "policyName", "plcyNm", "name", StrV("")),
                      target_age_min |-> target_age_min.n,
                      target_age_max |-> target_age_max.n,
                      benefit_amount |-> benefit_amount.n,
                      policy_type |-> Or2(p, "policyType", "lclsfNm", StrV(""))]]
       ELSE [err |-> "ValueError", val |-> << >>]

\* p.get(k1) or p.get(k2) or ... or default, keys being << k1, k2, ... >>
OrChain(p, keys, default) ==
    LET truthy == { i \in DOMAIN keys : ~Falsy(Get(p, keys[i], Null)) }
    IN IF truthy = {} THEN default
       ELSE p[keys[CHOOSE i \in truthy : \A j \in truthy : i <= j]]

\* the dict MockDataService._load_bank_products_from_json appends for one
\* element of the list (no conversion: the values are kept as they are);
\* interestRate 30 stands for 3.0
LoadedProduct(p) ==
    [productId |-> IF Falsy(OrChain(p, << "productId", "id", "code" >>, Null))
                   THEN Get(p, "prodId", StrV("BANK_UNKNOWN"))
                   ELSE OrChain(p, << "productId", "id", "code" >>, Null),
     productType |-> OrGet(p, "productType", "type", "category", StrV("DEPOSIT")),
     interestRate |-> OrChain(p, << "interestRate", "rate", "yield" >>, IntV(30)),
     termMonths |-> OrChain(p, << "termMonths", "term" >>, IntV(0)),
     riskLevel |-> OrChain(p, << "riskLevel", "risk" >>, IntV(2))]

\* the dict MockDataService._load_policies_from_json appends for one
\* element, or the ValueError of int()/float()
LoadedPolicy(p) ==
    LET targetAgeMin == OrChain(p, << "targetAgeMin", "sprtTrgtMinAge" >>, IntV(0))
        targetAgeMax == OrChain(p, << "targetAgeMax", "sprtTrgtMaxAge" >>, IntV(0))
        benefitAmount == OrChain(p, << "benefitAmount", "bnftAmt" >>, IntV(0))
    IN IF NumOk(targetAgeMin) /\ NumOk(targetAgeMax) /\ NumOk(benefitAmount)
       THEN [err |-> "none",
             val |-> [policyId |-> OrGet(p, "policyId", "plcyNo", "id", StrV("YOUTH_UNKNOWN")),
                      policyName |-> OrGet(p, "policyName", "plcyNm", "name", StrV("policy")),
                      targetAgeMin |-> IntV(targetAgeMin.n),
                      targetAgeMax |-> IntV(targetAgeMax.n),
                      benefitAmount |-> IntV(benefitAmount.n),
                      policyType |-> OrChain(p, << "policyType", "lclsfNm" >>, StrV(""))]]
       ELSE [err |-> "ValueError", val |-> << >>]

\* ------------------------------------------------------------------------
\* MSAClient: construction and remote calls
\* ------------------------------------------------------------------------
\* an environment variable that is not set
Unset == "<unset>"

EnvValues == {Unset, "", "http://svc.internal"}

\* os.getenv(name, default)
Getenv(value, default) == IF value = Unset THEN default ELSE value

\* MSAClient.__init__
MSAClient_init(policy_env, user_env) ==
    LET p == Getenv(policy_env, "http://localhost:8001")
        u == Getenv(user_env, "http://localhost:8002")
    IN [policy_service_url |-> p,
        user_service_url |-> u,
        timeout |-> 30,
        use_mock |-> ~(p # "" /\ u # "")]

\* what the remote end does with one HTTP request
Transport == [kind |-> "transport", code |-> 0, json |-> FALSE, body |-> << >>]

Status(code) == [kind |-> "status", code |-> code, json |-> FALSE, body |-> << >>]

NonJson == [kind |-> "ok", code |-> 200, json |-> FALSE, body |-> << >>]

Json(body) == [kind |-> "ok", code |-> 200, json |-> TRUE, body |-> body]

\* data.get("data", default) on the parsed body
BodyData(body, default) == IF "data" \in DOMAIN body THEN body["data"] ELSE default

\* the try/except around one GET of MSAClient: httpx.HTTPError (transport
\* failure, timeout, raise_for_status on a non-2xx status) is re-raised as a
\* bare Exception, any other exception is re-raised unchanged
LiveGet(reply, converted) ==
    IF reply.kind \in {"transport", "status"}
    THEN [err |-> "Exception", val |-> << >>]
    ELSE IF ~reply.json
         THEN [err |-> "JSONDecodeError", val |-> << >>]
         ELSE converted

Endpoint(svc, url, path) == [svc |-> svc, url |-> url, path |-> path]

\* MSAClient.get_bank_products: outcome and the requests put on the network
get_bank_products(self, filters, reply) ==
    IF self.use_mock
    THEN [out |-> _convert_bank_products(Mock_get_bank_products(filters)), net |-> {}]
    ELSE [out |-> LiveGet(reply, _convert_bank_products(BodyData(reply.body, << >>))),
          net |-> {Endpoint("policy", self.policy_service_url, "/api/v1/bank-products")}]

\* MSAClient.get_youth_policies
get_youth_policies(self, age, reply) ==
    IF self.use_mock
    THEN [out |-> _convert_youth_policies(Mock_get_youth_policies(age)), net |-> {}]
    ELSE [out |-> LiveGet(reply, _convert_youth_policies(BodyData(reply.body, << >>))),
          net |-> {Endpoint("policy", self.policy_service_url, "/api/v1/youth-policies")}]

\* the query parameters of the GET of get_youth_policies: `if age:` adds the
\* age
YouthPolicyParams(age) == IF Truthy(age) THEN [age |-> age] ELSE << >>

\* MSAClient.get_user_profile
get_user_profile(self, user_id, reply) ==
    IF self.use_mock
    THEN [out |-> IF Mock_get_user_profile(user_id) = Null
                  THEN [err |-> "Exception", val |-> << >>]
                  ELSE _convert_user_profile(Mock_get_user_profile(user_id)),
          net |-> {}]
    ELSE [out |-> LiveGet(reply, _convert_user_profile(BodyData(reply.body, << >>))),
          net |-> {Endpoint("user", self.user_service_url, "/api/v1/users/{id}")}]

\* MSAClient.send_portfolio_recommendation: True/False, never raises
send_portfolio_recommendation(self, reply) ==
    IF self.use_mock
    THEN [out |-> TRUE, net |-> {}]
    ELSE [out |-> reply.kind = "ok",
          net |-> {Endpoint("user", self.user_service_url,
                            "/api/v1/users/{id}/portfolio/recommendations")}]

\* MSAClient.send_processed_products: True/False, never raises
send_processed_products(self, reply) ==
    IF self.use_mock
    THEN [out |-> TRUE, net |-> {}]
    ELSE [out |-> reply.kind = "ok",
          net |-> {Endpoint("policy", self.policy_service_url,
                            "/api/v1/bank-products/processed")}]

\* one probe of MSAClient.health_check: httpx refuses a URL without scheme
\* (UnsupportedProtocol) before anything is sent, otherwise the GET goes out
Probe(svc, url, reply) ==
    IF url = ""
    THEN [out |-> FALSE, net |-> {}]
    ELSE [out |-> (reply.kind \in {"ok", "status"} /\ reply.code = 200),
          net |-> {Endpoint(svc, url, "/health")}]

\* MSAClient.health_check: use_mock is not consulted
health_check(self, reply1, reply2) ==
    LET p == Probe("policy", self.policy_service_url, reply1)
        u == Probe("user", self.user_service_url, reply2)
    IN [out |-> [policy_service |-> p.out, user_service |-> u.out],
        net |-> p.net \cup u.net]

\* ------------------------------------------------------------------------
\* PortfolioService: the deterministic (mock) strategy
\* ------------------------------------------------------------------------
\* a Python value returned by the engine: `shape` tells what kind of value
\* it is, `d` is its content.  "Recommendation" is a dict carrying every
\* field of the recommendation with the expected types.
PyValue(shape, d) == [shape |-> shape, d |-> d]

\* one entry of portfolio_items built from a product dict; the defaults are
\* those of product.get(key, default) at that position
MockItem(product, total_assets, pct, idDefault, nameDefault, typeDefault, rateDefault, riskDefault) ==
    [product_id |-> Get(product, "id", idDefault),
     product_name |-> Get(product, "product_name", StrV(nameDefault)),
     bank_name |-> Get(product, "bank_name", StrV("bank")),
     product_type |-> Get(product, "product_type", StrV(typeDefault)),
     allocation_percentage |-> pct,
     investment_amount |-> (total_assets * pct) \div 100,
     expected_return |-> Get(product, "interest_rate", rateDefault),
     risk_level |-> Get(product, "risk_level", riskDefault)]

\* the portfolio_items list of _mock_generate_portfolio: 40% of the first
\* product, 30% of the second and 30% of the third, when they exist
MockItems(total_assets, available_products) ==
    IF Len(available_products) = 0 THEN << >>
    ELSE << MockItem(available_products[1], total_assets, 40, 1, "deposit", "deposit", 30, 2) >>
         \o (IF Len(available_products) > 1
             THEN << MockItem(available_products[2], total_assets, 30, 2, "savings", "savings", 35, 2) >>
             ELSE << >>)
         \o (IF Len(available_products) > 2
             THEN << MockItem(available_products[3], total_assets, 30, 3, "fund", "fund", 50, 3) >>
             ELSE << >>)

\* variant: the sum of the field values without their weights
RECURSIVE WeightedSum_unweighted(_, _)
WeightedSum_unweighted(items, field) ==
    IF items = << >> THEN 0
    ELSE Head(items)[field] * 100 + WeightedSum_unweighted(Tail(items), field)

\* sum(item[field] * item["allocation_percentage"] / 100 for item in items),
\* kept as the exact numerator (not divided by 100)
RECURSIVE WeightedSum(_, _)
WeightedSum(items, field) ==
    IF items = << >> THEN 0
    ELSE Head(items)[field] * Head(items).allocation_percentage + WeightedSum(Tail(items), field)

\* [policy.get("policy_name", ...) for policy in youth_policies[:2]]
PolicyNames(youth_policies) ==
    [i \in 1..(IF Len(youth_policies) < 2 THEN Len(youth_policies) ELSE 2) |->
        Get(youth_policies[i], "policy_name", StrV("youth policy"))]

\* PortfolioService._mock_generate_portfolio
_mock_generate_portfolio(user_profile, available_products, youth_policies) ==
    LET total_assets == Get(user_profile, "total_assets", 10000000)
        risk_tolerance == Get(user_profile, "risk_tolerance", 5)
        portfolio_items == MockItems(total_assets, available_products)
    IN PyValue("Recommendation",
               [total_investment_amount |-> total_assets,
                portfolio_items |-> portfolio_items,
                expected_total_return |-> WeightedSum(portfolio_items, "expected_return"),
                total_risk_score |-> WeightedSum(portfolio_items, "risk_level"),
                recommendation_reason |-> risk_tolerance,
                confidence_score |-> 85,
                youth_policy_benefits |-> PolicyNames(youth_policies)])

\* PortfolioService.__init__: Gemini is used only when the library imported,
\* an API key is set and genai.configure succeeded
PortfolioService_init(GEMINI_AVAILABLE, gemini_api_key, configure_ok) ==
    [use_mock |-> ~(GEMINI_AVAILABLE /\ gemini_api_key # "" /\ configure_ok)]

\* ------------------------------------------------------------------------
\* analyze_user_portfolio (GET /users/{user_id}/analysis).  Scaling:
\*   total_return  : interest_rate (tenths of a percent) x amount, not divided
\*   risk_score    : hundredths (risk_level x whole percent)
\* ------------------------------------------------------------------------
RECURSIVE Sum(_)
Sum(ns) == IF ns = << >> THEN 0 ELSE Head(ns) + Sum(Tail(ns))

\* variant: an empty portfolio is analysed like any other
NotPortfolioItems_never(portfolio_items) == FALSE

\* `if not portfolio_items:`
NotPortfolioItems(portfolio_items) == Len(portfolio_items) = 0

\* variant: no product lookup succeeds
Resolved_none(portfolio_items, BankProduct) == << >>

\* the items whose db.query(BankProduct)...first() is not None
Resolved(portfolio_items, BankProduct) ==
    SelectSeq(portfolio_items, LAMBDA item : item.bank_product_id \in DOMAIN BankProduct)

\* the sector_allocation dict built by the loop: allocation_percentage
\* summed by product_type over the items whose product exists
SectorAllocation(portfolio_items, BankProduct) ==
    LET items == Resolved(portfolio_items, BankProduct)
        sectors == { BankProduct[items[i].bank_product_id].product_type : i \in DOMAIN items }
    IN [sector \in sectors |->
          Sum([i \in DOMAIN items |->
                 IF BankProduct[items[i].bank_product_id].product_type = sector
                 THEN items[i].allocation_percentage ELSE 0])]

\* variant: the score is not capped
DiversificationScore_uncapped(sector_allocation) ==
    Cardinality(DOMAIN sector_allocation) * 20

\* min(100, len(sector_allocation) * 20)
DiversificationScore(sector_allocation) ==
    LET score == Cardinality(DOMAIN sector_allocation) * 20
    IN IF score < 100 THEN score ELSE 100

\* the PortfolioAnalysis built from the rows (labels in English)
PortfolioAnalysis(portfolio_items, BankProduct) ==
    LET items == Resolved(portfolio_items, BankProduct)
        total_value == Sum([i \in DOMAIN portfolio_items |-> portfolio_items[i].investment_amount])
        total_return == Sum([i \in DOMAIN items |->
                               BankProduct[items[i].bank_product_id].interest_rate
                                  * items[i].investment_amount])
        risk_score == Sum([i \in DOMAIN items |->
                             BankProduct[items[i].bank_product_id].risk_level
                                * items[i].allocation_percentage])
        sector_allocation == SectorAllocation(portfolio_items, BankProduct)
        diversification_score == DiversificationScore(sector_allocation)
    IN [total_value |-> total_value,
        total_return |-> total_return,
        risk_score |-> risk_score,
        diversification_score |-> diversification_score,
        sector_allocation |-> sector_allocation,
        risk_analysis |->
            [overall_risk |-> IF risk_score < 200 THEN "low"
                              ELSE IF risk_score < 400 THEN "medium" ELSE "high",
             diversification |-> IF diversification_score > 60 THEN "good"
                                 ELSE "needs improvement"],
        recommendations |->
            << IF diversification_score > 60 THEN "well diversified"
               ELSE "consider more products",
               IF risk_score < 300 THEN "risk well managed"
               ELSE "consider lower-risk products" >>]

\* analyze_user_portfolio: db_up tells whether the queries succeed; an
\* HTTPException passes through, any other exception becomes a 500
analyze_user_portfolio(portfolio_items, BankProduct, db_up) ==
    IF ~db_up
    THEN [err |-> "HTTPException", code |-> 500, detail |-> "analysis failed", analysis |-> None]
    ELSE IF NotPortfolioItems(portfolio_items)
    THEN [err |-> "HTTPException", code |-> 404, detail |-> "no portfolio", analysis |-> None]
    ELSE [err |-> "none", code |-> 200, detail |-> "",
          analysis |-> PortfolioAnalysis(portfolio_items, BankProduct)]

\* ------------------------------------------------------------------------
\* What the Gemini model may do with one generate_content call
\* ------------------------------------------------------------------------
AIRaise == [kind |-> "raise", json |-> FALSE, value |-> PyValue("none", [none |-> 0])]

AIStall == [kind |-> "stall", json |-> FALSE, value |-> PyValue("none", [none |-> 0])]

AIText == [kind |-> "text", json |-> FALSE, value |-> PyValue("none", [none |-> 0])]

AIJson(v) == [kind |-> "text", json |-> TRUE, value |-> v]

\* a well-typed recommendation as the model might write it: the first
\* Len(pcts) products with the percentages pcts, which the prompt asks to
\* sum to 100 but nothing enforces
AIRecommendation(user_profile, products, pcts) ==
    LET total == Get(user_profile, "total_assets", 0)
        items == [i \in DOMAIN pcts |->
                    MockItem(products[i], total, pcts[i], i, "product", "type", 0, 1)]
    IN PyValue("Recommendation",
               [total_investment_amount |-> total,
                portfolio_items |-> items,
                expected_total_return |-> WeightedSum(items, "expected_return"),
                total_risk_score |-> WeightedSum(items, "risk_level"),
                recommendation_reason |-> 0,
                confidence_score |-> 90,
                youth_policy_benefits |-> << >>])

AIPercentages == { << >>, << 100 >>, << 50 >>, << 60, 40 >>, << 50, 30, 20 >> }

\* a well-typed recommendation whose single item carries an amount of the
\* model's own (half of the total for a 100% allocation)
AIOwnAmount(user_profile, products) ==
    LET r == AIRecommendation(user_profile, products, << 100 >>)
    IN [r EXCEPT !.d.portfolio_items[1].investment_amount = r.d.total_investment_amount \div 2]

\* a well-typed recommendation whose single item carries a risk level of the
\* model's own (one above the product's)
AIOwnRiskLevel(user_profile, products) ==
    LET r == AIRecommendation(user_profile, products, << 100 >>)
        risk == r.d.portfolio_items[1].risk_level + 1
    IN [r EXCEPT !.d.portfolio_items[1].risk_level = risk,
                 !.d.total_risk_score = risk * 100]

\* the values json.loads may yield for the response text
AIValues(user_profile, products) ==
    { AIRecommendation(user_profile, products, pcts) :
         pcts \in { q \in AIPercentages : Len(q) <= Len(products) } }
    \cup (IF products = << >> THEN {}
          ELSE { AIOwnAmount(user_profile, products), AIOwnRiskLevel(user_profile, products) })
    \cup { PyValue("dict_missing_field", [recommendation_reason |-> 0]),
           PyValue("dict_wrong_type", [portfolio_items |-> StrV("none")]),
           PyValue("list", [items |-> << >>]) }

AIReplies(user_profile, products) ==
    { AIRaise, AIStall, AIText } \cup { AIJson(v) : v \in AIValues(user_profile, products) }

\* ------------------------------------------------------------------------
\* Container resolution of bank.json / policy.json (FilePreprocessor and
\* MockDataService).  A value of the container is a list of records, a
\* non-empty string (some value that is not a list) or None (key absent); a
\* document is the top-level dict: enveloped tells whether it has the key
\* "result", result is that dict and rest the other top-level keys
\* ------------------------------------------------------------------------
NoneV == [kind |-> "none", items |-> << >>]

StrValue == [kind |-> "str", items |-> << >>]

ListV(items) == [kind |-> "list", items |-> items]

\* Python truthiness of a container value
TruthyValue(v) == v.kind = "str" \/ (v.kind = "list" /\ v.items # << >>)

\* `raw.get('result') or raw`: an empty result dict is falsy
Container(raw) == IF raw.enveloped /\ DOMAIN raw.result # {} THEN raw.result ELSE raw.rest

\* [container.get(k) for k in keys]
Candidates(container, keys) == [i \in DOMAIN keys |-> Get(container, keys[i], NoneV)]

ProductKeys == {"productId", "productName", "bankName", "interestRate", "productType"}

\* `isinstance(lst, list) and lst` and the sample lst[0] has a product key
ProductList(lst) ==
    /\ lst.kind = "list" /\ lst.items # << >>
    /\ \E k \in ProductKeys : k \in DOMAIN lst.items[1]

\* the least index of the candidates that pass the test, 0 for none; the
\* test is isinstance(lst, list) ("list") or that of the bank loader
\* ("product_list")
FirstIndex(candidates, test) ==
    LET found == { i \in DOMAIN candidates :
                     IF test = "list" THEN candidates[i].kind = "list"
                     ELSE ProductList(candidates[i]) }
    IN IF found = {} THEN 0 ELSE CHOOSE i \in found : \A j \in found : i <= j

BankKeys == << "bankProducts", "products", "list", "items" >>

PolicyKeys == << "youthPolicyList", "policies", "list", "items" >>

\* the records normalised by _normalize_bank ("bank"), _normalize_policy
\* ("policy") or the policy loader ("loaded_policy"), or the error of the
\* first one that fails
NormalizeAll(items, kind) ==
    LET normalized == [i \in DOMAIN items |->
                         IF kind = "bank" THEN _normalize_bank(items[i])
                         ELSE IF kind = "policy" THEN _normalize_policy(items[i])
                         ELSE LoadedPolicy(items[i])]
    IN IF \A i \in DOMAIN items : normalized[i].err = "none"
       THEN [err |-> "none", val |-> [i \in DOMAIN items |-> normalized[i].val]]
       ELSE [err |-> "ValueError", val |-> << >>]

\* FilePreprocessor.preprocess_bank: items is the list it settled on
preprocess_bank(raw) ==
    LET container == Container(raw)
        candidates == Candidates(container, BankKeys)
        first == FirstIndex(candidates, "list")
        items == IF first = 0 THEN << >> ELSE candidates[first].items
    IN IF items = << >> /\ Get(container, "youthPolicyList", NoneV).kind = "list"
       THEN [err |-> "none", items |-> << >>, val |-> << >>]
       ELSE [items |-> items] @@ NormalizeAll(items, "bank")

\* FilePreprocessor.preprocess_policy
preprocess_policy(raw) ==
    LET candidates == Candidates(Container(raw), PolicyKeys)
        first == FirstIndex(candidates, "list")
        items == IF first = 0 THEN << >> ELSE candidates[first].items
    IN [items |-> items] @@ NormalizeAll(items, "policy")

\* `if not data:` - None (no file, unreadable file) and {} alike
NotData(data) == ~data.enveloped /\ DOMAIN data.rest = {}

\* MockDataService._load_bank_products_from_json, data being what
\* _safe_load_json returned; source tells whether the list comes from the
\* file or is the built-in sample list
_load_bank_products_from_json(data) ==
    LET container == Container(data)
        candidate_lists == Candidates(container, BankKeys)
        first == FirstIndex(candidate_lists, "product_list")
        products == IF first = 0 THEN << >> ELSE candidate_lists[first].items
        normalized == [i \in DOMAIN products |-> LoadedProduct(products[i])]
    IN IF NotData(data)
       THEN [source |-> "mock", items |-> << >>, val |-> _get_mock_bank_products]
       ELSE IF products = << >> /\ TruthyValue(Get(container, "youthPolicyList", NoneV))
       THEN [source |-> "mock", items |-> << >>, val |-> _get_mock_bank_products]
       ELSE IF normalized # << >>
       THEN [source |-> "file", items |-> products, val |-> normalized]
       ELSE [source |-> "mock", items |-> products, val |-> _get_mock_bank_products]

\* MockDataService._load_policies_from_json, data being policy.json and alt
\* bank.json as _safe_load_json returned them
_load_policies_from_json(data, alt) ==
    LET use_alt == /\ NotData(data) /\ ~NotData(alt) /\ alt.enveloped
                   /\ Get(alt.result, "youthPolicyList", NoneV).kind = "list"
        doc == IF use_alt THEN alt ELSE data
        candidates == Candidates(Container(doc), PolicyKeys)
        first == FirstIndex(candidates, "list")
        policies_list == IF first = 0 THEN << >> ELSE candidates[first].items
        normalized == NormalizeAll(policies_list, "loaded_policy")
    IN IF NotData(data) /\ ~use_alt
       THEN [source |-> "mock", items |-> << >>, val |-> _get_mock_youth_policies]
       ELSE IF first = 0 \/ normalized.err # "none" \/ normalized.val = << >>
       THEN [source |-> "mock", items |-> policies_list, val |-> _get_mock_youth_policies]
       ELSE [source |-> "file", items |-> policies_list, val |-> normalized.val]

\* ------------------------------------------------------------------------
\* PortfolioService.analyze_portfolio_risk.  A score is kept as the exact
\* fraction num / den
\* ------------------------------------------------------------------------
Score(num, den) == [num |-> num, den |-> den]

\* PortfolioService._mock_analyze_risk (texts in English)
_mock_analyze_risk(portfolio_items) ==
    IF Len(portfolio_items) = 0
    THEN PyValue("RiskAnalysis",
                 [overall_risk_score |-> Score(5, 1),
                  risk_breakdown |-> [credit_risk |-> Score(5, 1), market_risk |-> Score(5, 1),
                                      liquidity_risk |-> Score(5, 1),
                                      concentration_risk |-> Score(5, 1)],
                  risk_factors |-> << "portfolio is empty" >>,
                  mitigation_strategies |-> << "add products" >>,
                  recommendations |-> << "diversify over several products" >>])
    ELSE LET avg_risk == Score(Sum([i \in DOMAIN portfolio_items |->
                                      Get(portfolio_items[i], "risk_level", 3)]),
                               Len(portfolio_items))
         IN PyValue("RiskAnalysis",
                    [overall_risk_score |-> avg_risk,
                     risk_breakdown |-> [credit_risk |-> avg_risk, market_risk |-> avg_risk,
                                         liquidity_risk |-> avg_risk,
                                         concentration_risk |-> avg_risk],
                     risk_factors |-> << "market volatility", "interest rate changes" >>,
                     mitigation_strategies |-> << "diversification", "regular rebalancing" >>,
                     recommendations |-> << "consider safer products", "review regularly" >>])

\* variant: only an exception of generate_content reaches the except clause
AIRiskFailed_onlyRaise(reply) == reply.kind = "raise"

\* the try/except of _ai_analyze_risk: an exception of generate_content or
\* of json.loads reaches the except clause
AIRiskFailed(reply) == reply.kind = "raise" \/ (reply.kind = "text" /\ ~reply.json)

\* PortfolioService.analyze_portfolio_risk: done tells whether the call
\* returned (generate_content has no timeout), val is the returned value
analyze_portfolio_risk(self, portfolio_items, reply) ==
    IF self.use_mock
    THEN [done |-> TRUE, val |-> _mock_analyze_risk(portfolio_items)]
    ELSE IF reply.kind = "stall"
    THEN [done |-> FALSE, val |-> PyValue("none", [none |-> 0])]
    ELSE IF AIRiskFailed(reply)
    THEN [done |-> TRUE, val |-> _mock_analyze_risk(portfolio_items)]
    ELSE [done |-> TRUE, val |-> reply.value]

\* what generate_content may answer to the risk prompt: a well-typed
\* analysis of the model's own, or JSON of another shape
AIRiskReplies ==
    { AIRaise, AIStall, AIText,
      AIJson(PyValue("RiskAnalysis",
                     [overall_risk_score |-> Score(7, 1),
                      risk_breakdown |-> [credit_risk |-> Score(6, 1), market_risk |-> Score(8, 1),
                                          liquidity_risk |-> Score(7, 1),
                                          concentration_risk |-> Score(7, 1)],
                      risk_factors |-> << "factor" >>,
                      mitigation_strategies |-> << "strategy" >>,
                      recommendations |-> << "advice" >>])),
      AIJson(PyValue("list", [items |-> << >>])) }

\* ------------------------------------------------------------------------
\* AIPreprocessingService (app/services/ai_preprocessing.py; the class
\* PreprocessingService of services/preprocessing_service.py has the same
\* four methods).  preprocessed_at, a timestamp, is left out
\* ------------------------------------------------------------------------
\* AIPreprocessingService._mock_preprocess_bank_product on a record with
\* numeric fields (float() and int() leave them as they are); 30 stands for
\* 3.0
_mock_preprocess_bank_product(product) ==
    PyValue("ProcessedProduct",
            [product_code |-> Get(product, "product_code", StrV("PROD_now")),
             product_name |-> Get(product, "product_name", StrV("product name")),
             product_type |-> Get(product, "product_type", StrV("deposit")),
             bank_name |-> Get(product, "bank_name", StrV("bank name")),
             interest_rate |-> Get(product, "interest_rate", 30),
             term_months |-> Get(product, "term_months", 12),
             risk_level |-> Get(product, "risk_level", 2)])

\* AIPreprocessingService._mock_preprocess_youth_policy
_mock_preprocess_youth_policy(policy) ==
    PyValue("ProcessedPolicy",
            [policy_code |-> Get(policy, "policy_code", StrV("POLICY_now")),
             policy_name |-> Get(policy, "policy_name", StrV("policy name")),
             target_age_min |-> Get(policy, "target_age_min", 18),
             target_age_max |-> Get(policy, "target_age_max", 39),
             benefit_amount |-> Get(policy, "benefit_amount", 1000000),
             policy_type |-> Get(policy, "policy_type", StrV("financial support"))])

\* the try/except of _ai_preprocess_bank_product / _ai_preprocess_youth_policy:
\* an exception of generate_content or of json.loads
AIPreprocessFailed(reply) == reply.kind = "raise" \/ (reply.kind = "text" /\ ~reply.json)

\* variant: a record whose AI call failed is left out
ProcessedList_dropFailed(self, records, replies, kind) ==
    LET kept == { i \in DOMAIN records : self.use_mock \/ ~AIPreprocessFailed(replies[i]) }
        at(k) == CHOOSE i \in kept : Cardinality({ j \in kept : j < i }) = k - 1
    IN [k \in 1..Cardinality(kept) |->
          IF ~self.use_mock THEN replies[at(k)].value
          ELSE IF kind = "bank_products" THEN _mock_preprocess_bank_product(records[at(k)])
          ELSE _mock_preprocess_youth_policy(records[at(k)])]

\* the list the loop of preprocess_bank_products / preprocess_youth_policies
\* builds: for each record the mock form (mock mode, or the AI call failed)
\* or the parsed answer of the model as it is
ProcessedList(self, records, replies, kind) ==
    [i \in DOMAIN records |->
        IF ~(self.use_mock \/ AIPreprocessFailed(replies[i])) THEN replies[i].value
        ELSE IF kind = "bank_products" THEN _mock_preprocess_bank_product(records[i])
        ELSE _mock_preprocess_youth_policy(records[i])]

\* AIPreprocessingService.preprocess_bank_products; replies[i] is what
\* generate_content does for the i-th record; the loop comes to its end
\* unless a generate_content never answers (it has no timeout)
preprocess_bank_products(self, raw_products, replies) ==
    IF self.use_mock \/ \A i \in DOMAIN replies : replies[i].kind # "stall"
    THEN [done |-> TRUE,
          val |-> ProcessedList(self, raw_products, replies, "bank_products")]
    ELSE [done |-> FALSE, val |-> << >>]

\* AIPreprocessingService.preprocess_youth_policies
preprocess_youth_policies(self, raw_policies, replies) ==
    IF self.use_mock \/ \A i \in DOMAIN replies : replies[i].kind # "stall"
    THEN [done |-> TRUE,
          val |-> ProcessedList(self, raw_policies, replies, "youth_policies")]
    ELSE [done |-> FALSE, val |-> << >>]

\* AIPreprocessingService.__init__: mock unless Vertex AI is importable, a
\* project id is set and vertexai.init succeeds
AIPreprocessingService_init(VERTEX_AI_AVAILABLE, project_id, init_ok) ==
    [use_mock |-> ~(VERTEX_AI_AVAILABLE /\ project_id # "" /\ init_ok)]

\* what generate_content may answer to a preprocessing prompt
AIPreprocessReplies ==
    { AIRaise, AIStall, AIText,
      AIJson(PyValue("ProcessedProduct", [product_code |-> StrV("AI")])) }

\* ------------------------------------------------------------------------
\* Inputs of the model
\* ------------------------------------------------------------------------
UserIds == {1, 9}

\* bodies without a "data" key
NoDataBody == [message |-> StrV("ok")]

UserReplies ==
    { Transport, Status(404), Json(NoDataBody), Json([data |-> RawUser(7, 25, 10000000, 6)]) }

ProductReplies ==
    { Transport, Status(503), NonJson, Json(NoDataBody),
      Json([data |-> << _get_mock_bank_products[1] >>]),
      Json([data |-> << _get_mock_bank_products[1], _get_mock_bank_products[2],
                        _get_mock_bank_products[4] >>]),
      Json([data |-> << [productId |-> StrV("BANK900"), interestRate |-> Null] >>]) }

PolicyReplies ==
    { Transport, Status(500), Json([data |-> << >>]),
      Json([data |-> << _get_mock_youth_policies[1], _get_mock_youth_policies[2] >>]) }

SendReplies == { Transport, Status(500), Json(NoDataBody) }

HealthReplies == { Transport, Status(200) }

\* normalised products, profiles and policies handed to the engine directly
Catalogue == [i \in 1..5 |-> ConvertProduct(_get_mock_bank_products[i])]

\* the elements of seq at the positions in idx, in source order
RECURSIVE Pick(_, _, _)
Pick(seq, idx, i) ==
    IF i > Len(seq) THEN << >>
    ELSE (IF i \in idx THEN << seq[i] >> ELSE << >>) \o Pick(seq, idx, i + 1)

\* every selection of at most MaxProducts catalogue products, order kept
ProductLists ==
    { Pick(Catalogue, idx, 1) : idx \in { x \in SUBSET (1..5) : Cardinality(x) <= MaxProducts } }

EngineProfiles ==
    { [total_assets |-> 10000000, risk_tolerance |-> 6], [age |-> 25] }

PolicyLists ==
    { << >>, [i \in 1..3 |-> ConvertPolicy(_get_mock_youth_policies[i])] }

\* raw values of a source record
RawValues == { Null, IntV(0), IntV(35), StrV(""), StrV("abc") }

\* every dict over at most MaxKeys of the keys
RawRecords(keys) ==
    UNION { [ks -> RawValues] : ks \in { x \in SUBSET keys : Cardinality(x) <= MaxKeys } }

RawProductRecords == RawRecords({"productId", "interestRate", "rate", "riskLevel"})

RawPolicyRecords == RawRecords({"policyId", "targetAgeMin", "sprtTrgtMinAge"})

\* the age argument of get_youth_policies: absent, 0, and the ages around
\* the bounds of the sample policies
Ages == { NoAge, 0, 17, 18, 25, 34, 39, 40 }

\* rows of the bank_products table: seven product types, the eighth row
\* repeats the first type
BankProductRow(type, rate, risk) ==
    [product_type |-> type, interest_rate |-> rate, risk_level |-> risk]

BankProductTable ==
    << BankProductRow("DEPOSIT", 35, 1), BankProductRow("SAVINGS", 40, 1),
       BankProductRow("YOUTH_ACCOUNT", 50, 2), BankProductRow("FUND", 70, 4),
       BankProductRow("BOND_FUND", 45, 2), BankProductRow("ETF", 60, 3),
       BankProductRow("STOCK", 90, 5), BankProductRow("DEPOSIT", 30, 1) >>

\* the user_portfolios rows of one user: one row for each product id from
\* first to last, equal shares; an id above the table has no product row
\* (the analyzer's `if product:` case, a database without enforced foreign
\* keys)
PortfolioRows(first, last) ==
    [i \in 1..(last - first + 1) |->
        [bank_product_id |-> first + i - 1,
         allocation_percentage |-> 100 \div (last - first + 1),
         investment_amount |-> 1000000]]

Portfolios ==
    { << >> } \cup { PortfolioRows(range[1], range[2]) :
                        range \in { r \in (1..(MaxItems + 1)) \X (1..(MaxItems + 1)) :
                                       r[1] <= r[2] } }

\* items of a portfolio as the risk analysis reads them: a risk level, or
\* no risk_level key
RiskItemLists ==
    UNION { [1..n -> { [risk_level |-> r] : r \in 1..5 }
                        \cup { [product_name |-> StrV("deposit")] }] :
               n \in 0..MaxRiskItems }

\* records of a document: two products and a policy
ProductA == [productId |-> StrV("abc"), interestRate |-> IntV(35)]

ProductB == [productId |-> StrV("xyz"), interestRate |-> IntV(0)]

PolicyA == [policyId |-> StrV("abc"), targetAgeMin |-> IntV(35)]

\* the containers: at most MaxContainerKeys of four of the keys, each with
\* a string, an empty list or a list of one record
Containers ==
    UNION { [ks -> { StrValue, ListV(<< >>), ListV(<< ProductA >>), ListV(<< ProductB >>),
                     ListV(<< PolicyA >>) }] :
               ks \in { x \in SUBSET {"bankProducts", "products", "youthPolicyList", "policies"} :
                           Cardinality(x) <= MaxContainerKeys } }

\* the documents: the container at top level, inside "result", or at top
\* level next to an empty "result"
Documents ==
    { [enveloped |-> FALSE, result |-> << >>, rest |-> c] : c \in Containers }
       \cup { [enveloped |-> TRUE, result |-> c, rest |-> << >>] : c \in Containers }
       \cup { [enveloped |-> TRUE, result |-> << >>, rest |-> c] : c \in Containers }

\* no file at the path: _safe_load_json returns None
NoFile == [enveloped |-> FALSE, result |-> << >>, rest |-> << >>]

\* the converted records handed to the preprocessing service
RecordLists(kind) ==
    UNION { [1..n -> IF kind = "bank_products"
                     THEN { Catalogue[1], Catalogue[2], Catalogue[4] }
                     ELSE { ConvertPolicy(_get_mock_youth_policies[i]) : i \in 1..3 }] :
               n \in 0..MaxRecords }

\* what generate_content does for the n records of one task: it answers
\* with JSON for all but at most one of them
TaskReplies(n) ==
    { [i \in 1..n |-> IF i = k THEN reply
                       ELSE AIJson(PyValue("ProcessedProduct", [product_code |-> StrV("AI")]))] :
         k \in 1..n, reply \in AIPreprocessReplies }

\* ------------------------------------------------------------------------
\* State
\* ------------------------------------------------------------------------
VARIABLES
    policy_env, user_env,   \* POLICY_SERVICE_URL / USER_SERVICE_URL at construction
    msa,                    \* the MSAClient instance
    ps,                     \* the PortfolioService instance
    net_log,                \* what the gateway put on the network for the current request
    health,                 \* answer of health_check
    pc,                     \* position of the current request
    requests,               \* requests served so far
    user_id, user_profile, available_products, youth_policies,  \* locals of recommend_portfolio
    response,               \* what recommend_portfolio answered
    bg_task,                \* background task queued by recommend_portfolio
    sent,                   \* outcome of send_portfolio_recommendation
    last_fetch,             \* the last gateway fetch and its outcome
    phase, trace,           \* state of the engine call and the states it went through
    caller,                 \* who called the engine
    e_profile, e_products, e_policies,   \* arguments of the engine call
    result,                 \* what the engine returned or raised
    fallback_runs,          \* runs of the deterministic strategy in this call
    ai_reply,               \* what generate_content did in this call
    call,                   \* the operation called on its own in this request, with its outcome
    fallback_log,           \* inputs and values of earlier runs of the deterministic strategy
    users, bank_products, user_portfolios,   \* committed rows of the database tables
    db_response             \* outcome of the last request to the database API

vars == << policy_env, user_env, msa, ps, net_log, health, pc, requests,
           user_id, user_profile, available_products, youth_policies,
           response, bg_task, sent, last_fetch, phase, trace, caller,
           e_profile, e_products, e_policies, result, fallback_runs, ai_reply,
           call, fallback_log, users, bank_products, user_portfolios, db_response >>

dbVars == << users, bank_products, user_portfolios, db_response >>

gatewayVars == << policy_env, user_env, msa, ps >>

handlerVars == << user_id, user_profile, available_products, youth_policies,
                  response, bg_task, sent, last_fetch >>

engineVars == << phase, trace, caller, e_profile, e_products, e_policies,
                 result, fallback_runs, ai_reply >>

NoResponse == [status |-> "none", code |-> 0, user_id |-> 0, recommendation |-> None]

HTTPException(code) == [status |-> "error", code |-> code, user_id |-> 0, recommendation |-> None]

NoReply == [kind |-> "none", json |-> FALSE, value |-> PyValue("none", [none |-> 0])]

NoFetch == [op |-> "none", live |-> FALSE, reply |-> "none", code |-> 0, err |-> "none", count |-> 0]

NoResult == [err |-> "none", val |-> PyValue("none", [none |-> 0])]

NoCall == [op |-> "none"]

Init ==
    /\ policy_env \in EnvValues
    /\ user_env \in EnvValues
    /\ msa = MSAClient_init(policy_env, user_env)
    /\ \E available \in BOOLEAN, key \in {"", "key"}, ok \in BOOLEAN :
          ps = PortfolioService_init(available, key, ok)
    /\ net_log = {}
    /\ health = None
    /\ pc = "idle"
    /\ requests = 0
    /\ user_id = 0
    /\ user_profile = None
    /\ available_products = << >>
    /\ youth_policies = << >>
    /\ response = NoResponse
    /\ bg_task = None
    /\ sent = None
    /\ last_fetch = NoFetch
    /\ phase = "IDLE"
    /\ trace = << >>
    /\ caller = "none"
    /\ e_profile = None
    /\ e_products = << >>
    /\ e_policies = << >>
    /\ result = NoResult
    /\ fallback_runs = 0
    /\ ai_reply = NoReply
    /\ call = NoCall
    /\ fallback_log = << >>
    /\ users = << >>
    /\ bank_products = << >>
    /\ user_portfolios = << >>
    /\ db_response = [op |-> "none", code |-> 0]

\* ------------------------------------------------------------------------
\* recommend_portfolio (POST /recommend/{user_id})
\* ------------------------------------------------------------------------
Fetch(op, reply, out) ==
    [op |-> op, live |-> ~msa.use_mock,
     reply |-> IF msa.use_mock THEN "none" ELSE reply.kind,
     code |-> IF msa.use_mock THEN 0 ELSE reply.code,
     err |-> out.err,
     count |-> IF out.err = "none" /\ op # "get_user_profile" THEN Len(out.val) ELSE 0]

\* the request arrives
StartRecommend ==
    /\ pc = "idle" /\ requests < MaxRequests
    /\ \E uid \in UserIds : user_id' = uid
    /\ pc' = "get_profile"
    /\ response' = NoResponse
    /\ UNCHANGED << gatewayVars, dbVars, call, fallback_log, net_log, health, requests, user_profile, available_products,
                    youth_policies, bg_task, sent, last_fetch, engineVars >>

\* 1. user_profile = await msa_client.get_user_profile(user_id); an exception
\* ends in the generic handler (500).  The 404 branch `if not user_profile`
\* is never taken: _convert_user_profile always returns a non-empty dict
GetUserProfile ==
    /\ pc = "get_profile"
    /\ \E reply \in UserReplies :
         LET r == get_user_profile(msa, user_id, reply)
         IN /\ net_log' = net_log \cup r.net
            /\ last_fetch' = Fetch("get_user_profile", reply, r.out)
            /\ IF r.out.err # "none"
               THEN /\ response' = HTTPException(500)
                    /\ pc' = "responded"
                    /\ UNCHANGED user_profile
               ELSE /\ user_profile' = r.out.val
                    /\ pc' = "get_products"
                    /\ UNCHANGED response
    /\ UNCHANGED << gatewayVars, dbVars, call, fallback_log, health, requests, user_id, available_products,
                    youth_policies, bg_task, sent, engineVars >>

\* 2. available_products = await msa_client.get_bank_products(); an empty
\* list ends in a 404
GetBankProducts ==
    /\ pc = "get_products"
    /\ \E reply \in ProductReplies :
         LET r == get_bank_products(msa, NoFilters, reply)
         IN /\ net_log' = net_log \cup r.net
            /\ last_fetch' = Fetch("get_bank_products", reply, r.out)
            /\ IF r.out.err # "none"
               THEN /\ response' = HTTPException(500)
                    /\ pc' = "responded"
                    /\ UNCHANGED available_products
               ELSE IF r.out.val = << >>
               THEN /\ response' = HTTPException(404)
                    /\ pc' = "responded"
                    /\ UNCHANGED available_products
               ELSE /\ available_products' = r.out.val
                    /\ pc' = "get_policies"
                    /\ UNCHANGED response
    /\ UNCHANGED << gatewayVars, dbVars, call, fallback_log, health, requests, user_id, user_profile,
                    youth_policies, bg_task, sent, engineVars >>

\* 3. youth_policies = await msa_client.get_youth_policies(user_profile.get('age', 25))
GetYouthPolicies ==
    /\ pc = "get_policies"
    /\ \E reply \in PolicyReplies :
         LET r == get_youth_policies(msa, Get(user_profile, "age", 25), reply)
         IN /\ net_log' = net_log \cup r.net
            /\ last_fetch' = Fetch("get_youth_policies", reply, r.out)
            /\ IF r.out.err # "none"
               THEN /\ response' = HTTPException(500)
                    /\ pc' = "responded"
                    /\ UNCHANGED youth_policies
               ELSE /\ youth_policies' = r.out.val
                    /\ pc' = "generate"
                    /\ UNCHANGED response
    /\ UNCHANGED << gatewayVars, dbVars, call, fallback_log, health, requests, user_id, user_profile,
                    available_products, bg_task, sent, engineVars >>

\* entry of generate_portfolio_recommendation
EngineCall(who, profile, products, policies) ==
    /\ phase = "IDLE"
    /\ phase' = "REQUESTED"
    /\ trace' = << "REQUESTED" >>
    /\ caller' = who
    /\ e_profile' = profile
    /\ e_products' = products
    /\ e_policies' = policies
    /\ result' = NoResult
    /\ fallback_runs' = 0
    /\ ai_reply' = NoReply

\* 4. recommendation = await portfolio_recommender.generate_portfolio_recommendation(...),
\* the engine being PortfolioService
CallEngine ==
    /\ pc = "generate"
    /\ EngineCall("api", user_profile, available_products, youth_policies)
    /\ pc' = "await_engine"
    /\ UNCHANGED << gatewayVars, dbVars, call, fallback_log, net_log, health, requests, handlerVars >>

\* 5. background_tasks.add_task(send_recommendation_to_user_service, ...) and
\* the return of the response; an exception of the engine ends in a 500
AddTaskAndRespond ==
    /\ pc = "await_engine"
    /\ phase \in {"COMPLETED", "RAISED"}
    /\ IF result.err = "none"
       THEN /\ bg_task' = [user_id |-> user_id, recommendation |-> result.val]
            /\ response' = [status |-> "success", code |-> 200, user_id |-> user_id,
                            recommendation |-> result.val]
       ELSE /\ bg_task' = None
            /\ response' = HTTPException(500)
    /\ pc' = "responded"
    /\ phase' = "IDLE"
    /\ UNCHANGED << gatewayVars, dbVars, call, fallback_log, net_log, health, requests, user_id, user_profile,
                    available_products, youth_policies, sent, last_fetch,
                    trace, caller, e_profile, e_products, e_policies, result,
                    fallback_runs, ai_reply >>

\* variant: a failed send is reported to the client as a 500
SendRecommendationToUserService_propagates ==
    /\ pc = "responded" /\ bg_task # None
    /\ \E reply \in SendReplies :
         LET r == send_portfolio_recommendation(msa, reply)
         IN /\ net_log' = net_log \cup r.net
            /\ sent' = [success |-> r.out, recommendation |-> bg_task.recommendation]
            /\ response' = IF r.out THEN response ELSE HTTPException(500)
    /\ bg_task' = None
    /\ UNCHANGED << gatewayVars, dbVars, call, fallback_log, health, pc, requests, user_id, user_profile,
                    available_products, youth_policies, last_fetch, engineVars >>

\* send_recommendation_to_user_service, run after the response went out:
\* the outcome of the send is only logged
SendRecommendationToUserService ==
    /\ pc = "responded" /\ bg_task # None
    /\ \E reply \in SendReplies :
         LET r == send_portfolio_recommendation(msa, reply)
         IN /\ net_log' = net_log \cup r.net
            /\ sent' = [success |-> r.out, recommendation |-> bg_task.recommendation]
    /\ bg_task' = None
    /\ UNCHANGED << gatewayVars, dbVars, call, fallback_log, health, pc, requests, user_id, user_profile,
                    available_products, youth_policies, response, last_fetch, engineVars >>

\* the request and its background task are over (or the direct caller has
\* its value); the locals are gone
FinishRequest ==
    /\ \/ pc = "responded" /\ bg_task = None
       \/ pc = "direct" /\ phase \in {"COMPLETED", "RAISED"}
    /\ pc' = "idle"
    /\ phase' = "IDLE"
    /\ requests' = requests + 1
    /\ user_id' = 0
    /\ user_profile' = None
    /\ available_products' = << >>
    /\ youth_policies' = << >>
    /\ response' = NoResponse
    /\ sent' = None
    /\ last_fetch' = NoFetch
    /\ trace' = << >>
    /\ caller' = "none"
    /\ e_profile' = None
    /\ e_products' = << >>
    /\ e_policies' = << >>
    /\ result' = NoResult
    /\ fallback_runs' = 0
    /\ ai_reply' = NoReply
    /\ net_log' = {}
    /\ health' = None
    /\ call' = NoCall
    /\ UNCHANGED << gatewayVars, dbVars, fallback_log, bg_task >>

\* GET /health: msa_client.health_check()
HealthCheck ==
    /\ pc = "idle" /\ requests < MaxRequests
    /\ \E reply1 \in HealthReplies, reply2 \in HealthReplies :
         LET r == health_check(msa, reply1, reply2)
         IN /\ health' = r.out
            /\ net_log' = net_log \cup r.net
    /\ pc' = "responded"
    /\ UNCHANGED << gatewayVars, dbVars, call, fallback_log, requests, handlerVars, engineVars >>

\* the two product normalisers applied to one raw record
NormalizeProduct ==
    /\ pc = "idle" /\ requests < MaxRequests
    /\ \E p \in RawProductRecords :
          call' = [op |-> "normalize_product", arg |-> p,
                   msa |-> _convert_bank_products(<< p >>),
                   file |-> _normalize_bank(p),
                   mock |-> LoadedProduct(p)]
    /\ pc' = "responded"
    /\ UNCHANGED << gatewayVars, dbVars, fallback_log, net_log, health, requests, handlerVars,
                    engineVars >>

\* the two policy normalisers applied to one raw record
NormalizePolicy ==
    /\ pc = "idle" /\ requests < MaxRequests
    /\ \E p \in RawPolicyRecords :
          call' = [op |-> "normalize_policy", arg |-> p,
                   msa |-> _convert_youth_policies(<< p >>),
                   file |-> _normalize_policy(p),
                   mock |-> LoadedPolicy(p)]
    /\ pc' = "responded"
    /\ UNCHANGED << gatewayVars, dbVars, fallback_log, net_log, health, requests, handlerVars,
                    engineVars >>

\* msa_client.get_youth_policies(age) with the age of the caller's choice
\* (preprocess_policies_task passes the query parameter on)
GetYouthPoliciesForAge ==
    /\ pc = "idle" /\ requests < MaxRequests
    /\ \E age \in Ages, reply \in PolicyReplies :
          LET r == get_youth_policies(msa, age, reply)
          IN /\ call' = [op |-> "get_youth_policies", age |-> age, live |-> ~msa.use_mock,
                          params |-> IF msa.use_mock THEN << >> ELSE YouthPolicyParams(age),
                          out |-> r.out]
             /\ net_log' = net_log \cup r.net
    /\ pc' = "responded"
    /\ UNCHANGED << gatewayVars, dbVars, fallback_log, health, requests, handlerVars, engineVars >>

\* GET /users/{user_id}/analysis on the rows the database holds for the user
AnalyzeUserPortfolio ==
    /\ pc = "idle" /\ requests < MaxRequests
    /\ \E portfolio_items \in Portfolios, db_up \in BOOLEAN :
          call' = [op |-> "analyze_user_portfolio",
                   portfolio_items |-> IF db_up THEN portfolio_items ELSE << >>,
                   db_up |-> db_up,
                   out |-> analyze_user_portfolio(portfolio_items, BankProductTable, db_up)]
    /\ pc' = "responded"
    /\ UNCHANGED << gatewayVars, dbVars, fallback_log, net_log, health, requests, handlerVars,
                    engineVars >>

\* portfolio_service.analyze_portfolio_risk(portfolio_items); a call whose
\* generate_content never answers stays where it is
AnalyzePortfolioRisk ==
    /\ pc = "idle" /\ requests < MaxRequests
    /\ \E portfolio_items \in RiskItemLists, reply \in AIRiskReplies :
          LET r == analyze_portfolio_risk(ps, portfolio_items, reply)
          IN /\ call' = [op |-> "analyze_portfolio_risk", portfolio_items |-> portfolio_items,
                          reply |-> IF ps.use_mock THEN NoReply ELSE reply,
                          done |-> r.done, val |-> r.val]
             /\ pc' = IF r.done THEN "responded" ELSE "blocked"
    /\ UNCHANGED << gatewayVars, dbVars, fallback_log, net_log, health, requests, handlerVars,
                    engineVars >>

\* one document read as bank.json by FilePreprocessor.preprocess_bank and by
\* MockDataService._load_bank_products_from_json, and as policy.json by
\* FilePreprocessor.preprocess_policy and by
\* MockDataService._load_policies_from_json (policy_alt: policy.json is
\* missing and the document is bank.json)
LoadDocument ==
    /\ pc = "idle" /\ requests < MaxRequests
    /\ \E raw \in Documents :
          call' = [op |-> "load_document", raw |-> raw,
                   bank_file |-> preprocess_bank(raw),
                   policy_file |-> preprocess_policy(raw),
                   bank_mock |-> _load_bank_products_from_json(raw),
                   policy_mock |-> _load_policies_from_json(raw, NoFile),
                   policy_alt |-> _load_policies_from_json(NoFile, raw)]
    /\ pc' = "responded"
    /\ UNCHANGED << gatewayVars, dbVars, fallback_log, net_log, health, requests, handlerVars,
                    engineVars >>

\* ai_preprocessing_service.preprocess_bank_products(raw_products) or
\* .preprocess_youth_policies(raw_policies) on records as MSAClient returns
\* them; a call in which generate_content never answers stays where it is
PreprocessRecords ==
    /\ pc = "idle" /\ requests < MaxRequests
    /\ \E kind \in {"bank_products", "youth_policies"},
          available \in BOOLEAN, init_ok \in BOOLEAN :
          LET self == AIPreprocessingService_init(available, "project", init_ok)
          IN \E records \in RecordLists(kind) :
             \E replies \in IF self.use_mock THEN { [i \in DOMAIN records |-> NoReply] }
                              ELSE [DOMAIN records -> AIPreprocessReplies] :
                LET r == IF kind = "bank_products"
                         THEN preprocess_bank_products(self, records, replies)
                         ELSE preprocess_youth_policies(self, records, replies)
                IN /\ call' = [op |-> "preprocess_records", kind |-> kind, self |-> self,
                                records |-> records, replies |-> replies,
                                done |-> r.done, val |-> r.val]
                   /\ pc' = IF r.done THEN "responded" ELSE "blocked"
    /\ UNCHANGED << gatewayVars, dbVars, fallback_log, net_log, health, requests, handlerVars,
                    engineVars >>

\* ------------------------------------------------------------------------
\* preprocess_products_task (app/api/bank_products.py): the background task
\* of POST /bank-products/preprocess.  call.steps lists the steps taken,
\* call.outcome tells how the task ended; the try/except around the whole
\* task only logs
\* ------------------------------------------------------------------------
\* POST /bank-products/preprocess: the task is queued; product_type is left
\* out, a type the sample data has, or a type it has not
StartPreprocessTask ==
    /\ pc = "idle" /\ requests < MaxRequests
    /\ \E product_type \in {"", "DEPOSIT", "LOAN"}, available \in BOOLEAN :
          call' = [op |-> "preprocess_products_task",
                   self |-> AIPreprocessingService_init(available, "project", TRUE),
                   product_type |-> product_type,
                   step |-> "fetch", steps |-> << >>, outcome |-> "running",
                   raw_products |-> << >>, processed_products |-> << >>, sends |-> 0]
    /\ pc' = "task"
    /\ UNCHANGED << gatewayVars, dbVars, fallback_log, net_log, health, requests, handlerVars,
                    engineVars >>

\* variant: an empty fetch goes on to the next step
AfterFetch_ignoresEmpty(out) ==
    IF out.err # "none" THEN "failed" ELSE "preprocess"

\* where the task goes after the fetch: the except clause, the early
\* return of `if not raw_products`, or step 2
AfterFetch(out) ==
    IF out.err # "none" THEN "failed"
    ELSE IF out.val = << >> THEN "empty"
    ELSE "preprocess"

\* 1. raw_products = await msa_client.get_bank_products(
\*        {"product_type": product_type} if product_type else None)
TaskFetch ==
    /\ pc = "task" /\ call.step = "fetch"
    /\ \E reply \in ProductReplies :
          LET r == get_bank_products(msa,
                                     IF call.product_type = "" THEN NoFilters
                                     ELSE [product_type |-> call.product_type],
                                     reply)
              next == AfterFetch(r.out)
          IN /\ net_log' = net_log \cup r.net
             /\ call' = [call EXCEPT !.steps = Append(@, "fetch"),
                                      !.raw_products = r.out.val,
                                      !.step = IF next = "preprocess" THEN next ELSE "done",
                                      !.outcome = IF next = "preprocess" THEN @ ELSE next]
             /\ pc' = IF next = "preprocess" THEN "task" ELSE "responded"
    /\ UNCHANGED << gatewayVars, dbVars, fallback_log, health, requests, handlerVars,
                    engineVars >>

\* 2. processed_products = await
\* ai_preprocessing_service.preprocess_bank_products(raw_products)
TaskPreprocess ==
    /\ pc = "task" /\ call.step = "preprocess"
    /\ \E replies \in IF call.self.use_mock \/ call.raw_products = << >>
                        THEN { [i \in DOMAIN call.raw_products |-> NoReply] }
                        ELSE TaskReplies(Len(call.raw_products)) :
          LET r == preprocess_bank_products(call.self, call.raw_products, replies)
          IN /\ call' = [call EXCEPT !.steps = Append(@, "preprocess"),
                                      !.processed_products = r.val,
                                      !.step = IF r.done THEN "send" ELSE "preprocess"]
             /\ pc' = IF r.done THEN "task" ELSE "blocked"
    /\ UNCHANGED << gatewayVars, dbVars, fallback_log, net_log, health, requests, handlerVars,
                    engineVars >>

\* 3. success = await msa_client.send_processed_products(processed_products);
\* the outcome is logged and the task ends
TaskSend ==
    /\ pc = "task" /\ call.step = "send"
    /\ \E reply \in SendReplies :
          LET r == send_processed_products(msa, reply)
          IN /\ net_log' = net_log \cup r.net
             /\ call' = [call EXCEPT !.steps = Append(@, "send"),
                                      !.sends = @ + 1,
                                      !.step = "done",
                                      !.outcome = IF r.out THEN "sent" ELSE "send_failed"]
    /\ pc' = "responded"
    /\ UNCHANGED << gatewayVars, dbVars, fallback_log, health, requests, handlerVars,
                    engineVars >>

\* ------------------------------------------------------------------------
\* PortfolioService.generate_portfolio_recommendation
\* ------------------------------------------------------------------------
\* a caller other than the request handler invokes the engine with
\* normalised inputs of its own
StartDirect ==
    /\ pc = "idle" /\ requests < MaxRequests
    /\ \E profile \in EngineProfiles, products \in ProductLists, policies \in PolicyLists :
          EngineCall("direct", profile, products, policies)
    /\ pc' = "direct"
    /\ UNCHANGED << gatewayVars, dbVars, call, fallback_log, net_log, health, requests, handlerVars >>

\* `if self.use_mock:` selects the strategy
Dispatch ==
    /\ phase = "REQUESTED"
    /\ phase' = IF ps.use_mock THEN "SKIPPED_NO_AI" ELSE "AI_ATTEMPTED"
    /\ trace' = Append(trace, phase')
    /\ UNCHANGED << gatewayVars, dbVars, call, fallback_log, net_log, health, pc, requests, handlerVars, caller,
                    e_profile, e_products, e_policies, result, fallback_runs, ai_reply >>

\* variant: only an exception of generate_content reaches the except clause
\* (the response text is handed on without json.loads failing)
AIOutcome_onlyRaise(reply) ==
    IF reply.kind = "raise" THEN "AI_FAILED" ELSE "AI_SUCCEEDED"

\* where the try block of _ai_generate_portfolio ends for a reply of the
\* model: an exception of generate_content or of json.loads reaches the
\* except clause, any parsed value is returned as it is
AIOutcome(reply) ==
    IF reply.kind = "raise" \/ (reply.kind = "text" /\ ~reply.json)
    THEN "AI_FAILED"
    ELSE "AI_SUCCEEDED"

\* response = self.model.generate_content(prompt); json.loads(response.text).
\* generate_content is a synchronous call without a timeout: when the model
\* never answers, the call never returns and the request stays where it is
GenerateContent ==
    /\ phase = "AI_ATTEMPTED" /\ ai_reply.kind = "none"
    /\ \E reply \in AIReplies(e_profile, e_products) :
         /\ ai_reply' = reply
         /\ IF reply.kind = "stall"
            THEN UNCHANGED << phase, trace, result >>
            ELSE /\ phase' = AIOutcome(reply)
                 /\ trace' = Append(trace, phase')
                 /\ result' = IF phase' = "AI_SUCCEEDED"
                              THEN [err |-> "none", val |-> reply.value]
                              ELSE result
    /\ UNCHANGED << gatewayVars, dbVars, call, fallback_log, net_log, health, pc, requests, handlerVars, caller,
                    e_profile, e_products, e_policies, fallback_runs >>

\* variant: the deterministic strategy also runs after the AI answered
FallbackEnabled_afterSuccess == phase \in {"SKIPPED_NO_AI", "AI_FAILED", "AI_SUCCEEDED"}

\* the two places that call _mock_generate_portfolio: the use_mock branch
\* and the except clause of _ai_generate_portfolio
FallbackEnabled == phase \in {"SKIPPED_NO_AI", "AI_FAILED"}

\* variant: the value depends on how many requests were served before
FallbackResult_stateful ==
    LET v == _mock_generate_portfolio(e_profile, e_products, e_policies)
    IN [err |-> "none", val |-> [v EXCEPT !.d.confidence_score = 85 - requests]]

\* what the fallback hands back to generate_portfolio_recommendation
FallbackResult ==
    [err |-> "none", val |-> _mock_generate_portfolio(e_profile, e_products, e_policies)]

\* the runs of the deterministic strategy that fallback_log keeps: those on
\* the products of Scenario A without policies
Logged(profile, products, policies) ==
    products = << Catalogue[1], Catalogue[2], Catalogue[4] >> /\ policies = << >>

Fallback ==
    /\ FallbackEnabled
    /\ result' = FallbackResult
    /\ fallback_log' =
          IF Logged(e_profile, e_products, e_policies)
          THEN Append(fallback_log, [profile |-> e_profile, products |-> e_products,
                                     policies |-> e_policies, value |-> FallbackResult.val])
          ELSE fallback_log
    /\ fallback_runs' = fallback_runs + 1
    /\ phase' = "FALLBACK_USED"
    /\ trace' = Append(trace, phase')
    /\ UNCHANGED << gatewayVars, dbVars, call, net_log, health, pc, requests, handlerVars, caller,
                    e_profile, e_products, e_policies, ai_reply >>

\* return recommendation (or the exception leaves through `raise`)
Return ==
    /\ phase \in {"AI_SUCCEEDED", "FALLBACK_USED"}
    /\ phase' = IF result.err = "none" THEN "COMPLETED" ELSE "RAISED"
    /\ trace' = Append(trace, phase')
    /\ UNCHANGED << gatewayVars, dbVars, call, fallback_log, net_log, health, pc, requests, handlerVars, caller,
                    e_profile, e_products, e_policies, result, fallback_runs, ai_reply >>

\* ------------------------------------------------------------------------
\* The database API (app/api/bank_products.py, app/api/portfolio.py).  A
\* table is the sequence of its committed rows; commit_ok tells whether
\* the commit succeeds (a failure is rolled back and answered with 500)
\* ------------------------------------------------------------------------
\* db.query(Model).filter(Model.id == id).first() is not None
Exists(rows, id) == \E i \in DOMAIN rows : rows[i].id = id

\* the id the database gives the next row of the table
NextId(rows) ==
    IF rows = << >> THEN 1
    ELSE 1 + (CHOOSE m \in { rows[i].id : i \in DOMAIN rows } :
                 \A i \in DOMAIN rows : rows[i].id <= m)

\* product_update.dict(exclude_unset=True)
UpdateData ==
    { << >> } \cup { [risk_level |-> r] : r \in {1, 3} }
       \cup { [is_active |-> b] : b \in BOOLEAN }
       \cup { [risk_level |-> r, is_active |-> b] : r \in {1, 3}, b \in BOOLEAN }

DbResponse(op, code) == [op |-> op, code |-> code]

\* POST /users/
CreateUser ==
    /\ Len(users) < MaxUsers
    /\ \E email \in {"a@x", "b@x"}, commit_ok \in BOOLEAN :
          IF \E i \in DOMAIN users : users[i].email = email
          THEN /\ db_response' = DbResponse("create_user", 400)
               /\ UNCHANGED users
          ELSE IF commit_ok
          THEN /\ users' = Append(users, [id |-> NextId(users), email |-> email])
               /\ db_response' = DbResponse("create_user", 200)
          ELSE /\ db_response' = DbResponse("create_user", 500)
               /\ UNCHANGED users
    /\ UNCHANGED << bank_products, user_portfolios >>
    /\ UNCHANGED << gatewayVars, call, fallback_log, net_log, health, pc, requests,
                    handlerVars, engineVars >>

\* POST /bank-products/
CreateBankProduct ==
    /\ Len(bank_products) < MaxProductRows
    /\ \E product_code \in {"P1", "P2"}, risk_level \in {1, 3}, commit_ok \in BOOLEAN :
          IF \E i \in DOMAIN bank_products : bank_products[i].product_code = product_code
          THEN /\ db_response' = DbResponse("create_bank_product", 400)
               /\ UNCHANGED bank_products
          ELSE IF commit_ok
          THEN /\ bank_products' =
                     Append(bank_products,
                            [id |-> NextId(bank_products), product_code |-> product_code,
                             risk_level |-> risk_level, is_active |-> TRUE])
               /\ db_response' = DbResponse("create_bank_product", 200)
          ELSE /\ db_response' = DbResponse("create_bank_product", 500)
               /\ UNCHANGED bank_products
    /\ UNCHANGED << users, user_portfolios >>
    /\ UNCHANGED << gatewayVars, call, fallback_log, net_log, health, pc, requests,
                    handlerVars, engineVars >>

\* the row with the fields of update_data set
Updated(row, update_data) ==
    [field \in DOMAIN row |->
        IF field \in DOMAIN update_data THEN update_data[field] ELSE row[field]]

\* PUT /bank-products/{product_id}
UpdateBankProduct ==
    /\ \E product_id \in 1..(MaxProductRows + 1), update_data \in UpdateData,
          commit_ok \in BOOLEAN :
          IF ~Exists(bank_products, product_id)
          THEN /\ db_response' = DbResponse("update_bank_product", 404)
               /\ UNCHANGED bank_products
          ELSE IF commit_ok
          THEN /\ bank_products' =
                     [i \in DOMAIN bank_products |->
                        IF bank_products[i].id = product_id
                        THEN Updated(bank_products[i], update_data)
                        ELSE bank_products[i]]
               /\ db_response' = DbResponse("update_bank_product", 200)
          ELSE /\ db_response' = DbResponse("update_bank_product", 500)
               /\ UNCHANGED bank_products
    /\ UNCHANGED << users, user_portfolios >>
    /\ UNCHANGED << gatewayVars, call, fallback_log, net_log, health, pc, requests,
                    handlerVars, engineVars >>

\* variant: the row is removed from the table
Deleted_hard(rows, product_id) == SelectSeq(rows, LAMBDA row : row.id # product_id)

\* `product.is_active = False`: the table after the soft delete
Deleted(rows, product_id) ==
    [i \in DOMAIN rows |->
        IF rows[i].id = product_id THEN [rows[i] EXCEPT !.is_active = FALSE] ELSE rows[i]]

\* DELETE /bank-products/{product_id}
DeleteBankProduct ==
    /\ \E product_id \in 1..(MaxProductRows + 1), commit_ok \in BOOLEAN :
          IF ~Exists(bank_products, product_id)
          THEN /\ db_response' = DbResponse("delete_bank_product", 404)
               /\ UNCHANGED bank_products
          ELSE IF commit_ok
          THEN /\ bank_products' = Deleted(bank_products, product_id)
               /\ db_response' = DbResponse("delete_bank_product", 200)
          ELSE /\ db_response' = DbResponse("delete_bank_product", 500)
               /\ UNCHANGED bank_products
    /\ UNCHANGED << users, user_portfolios >>
    /\ UNCHANGED << gatewayVars, call, fallback_log, net_log, health, pc, requests,
                    handlerVars, engineVars >>

\* POST /users/{user_id}/portfolio
CreateUserPortfolio ==
    /\ Len(user_portfolios) < MaxPortfolioRows
    /\ \E uid \in 1..(MaxUsers + 1), bank_product_id \in 1..(MaxProductRows + 1),
          commit_ok \in BOOLEAN :
          IF ~Exists(users, uid) \/ ~Exists(bank_products, bank_product_id)
          THEN /\ db_response' = DbResponse("create_user_portfolio", 404)
               /\ UNCHANGED user_portfolios
          ELSE IF commit_ok
          THEN /\ user_portfolios' =
                     Append(user_portfolios,
                            [id |-> NextId(user_portfolios), user_id |-> uid,
                             bank_product_id |-> bank_product_id,
                             allocation_percentage |-> 50, investment_amount |-> 1000000])
               /\ db_response' = DbResponse("create_user_portfolio", 200)
          ELSE /\ db_response' = DbResponse("create_user_portfolio", 500)
               /\ UNCHANGED user_portfolios
    /\ UNCHANGED << users, bank_products >>
    /\ UNCHANGED << gatewayVars, call, fallback_log, net_log, health, pc, requests,
                    handlerVars, engineVars >>

Next ==
    \/ StartRecommend
    \/ GetUserProfile
    \/ GetBankProducts
    \/ GetYouthPolicies
    \/ CallEngine
    \/ AddTaskAndRespond
    \/ SendRecommendationToUserService
    \/ FinishRequest
    \/ HealthCheck
    \/ NormalizeProduct
    \/ NormalizePolicy
    \/ GetYouthPoliciesForAge
    \/ AnalyzeUserPortfolio
    \/ AnalyzePortfolioRisk
    \/ LoadDocument
    \/ PreprocessRecords
    \/ StartPreprocessTask
    \/ TaskFetch
    \/ TaskPreprocess
    \/ TaskSend
    \/ StartDirect
    \/ Dispatch
    \/ GenerateContent
    \/ Fallback
    \/ Return

Spec == Init /\ [][Next]_vars

\* the steps the event loop takes by itself once a request or a task has
\* started (the arrival of a request is up to the clients)
Progress ==
    \/ GetUserProfile
    \/ GetBankProducts
    \/ GetYouthPolicies
    \/ CallEngine
    \/ AddTaskAndRespond
    \/ SendRecommendationToUserService
    \/ FinishRequest
    \/ Dispatch
    \/ GenerateContent
    \/ Fallback
    \/ Return
    \/ TaskFetch
    \/ TaskPreprocess
    \/ TaskSend

\* the event loop runs whatever is runnable
FairSpec == Spec /\ WF_vars(Progress)

\* the database API on its own: requests in any order against one
\* service instance
DbInit ==
    /\ Init
    /\ policy_env = Unset /\ user_env = Unset
    /\ ps = PortfolioService_init(FALSE, "", FALSE)

DbNext ==
    \/ CreateUser
    \/ CreateBankProduct
    \/ UpdateBankProduct
    \/ DeleteBankProduct
    \/ CreateUserPortfolio

DbSpec == DbInit /\ [][DbNext]_vars

\* ------------------------------------------------------------------------
\* Properties
\* ------------------------------------------------------------------------
RECURSIVE SumPercentages(_)
SumPercentages(items) ==
    IF items = << >> THEN 0
    ELSE Head(items).allocation_percentage + SumPercentages(Tail(items))

\* the engine call is over and handed a value or an exception to its caller
Finished == phase \in {"COMPLETED", "RAISED"}

\* generate_content raised, or its text was not JSON
AIFailed == ai_reply.kind = "raise" \/ (ai_reply.kind = "text" /\ ~ai_reply.json)

\* the inputs of Scenario A: rates 3.5 / 4.0 / 7.0, risk levels 1 / 1 / 4
ScenarioA ==
    /\ e_profile = [total_assets |-> 10000000, risk_tolerance |-> 6]
    /\ e_products = << Catalogue[1], Catalogue[2], Catalogue[4] >>

\* C1: every Recommendation returned for a non-empty product list has
\* allocation percentages that sum to 100, whichever strategy produced it.
C1_AllocationSumsTo100 ==
    (phase = "COMPLETED" /\ e_products # << >> /\ result.val.shape = "Recommendation")
        => SumPercentages(result.val.d.portfolio_items) = 100

AllowedTransitions ==
    { << "REQUESTED", "AI_ATTEMPTED" >>, << "REQUESTED", "SKIPPED_NO_AI" >>,
      << "AI_ATTEMPTED", "AI_SUCCEEDED" >>, << "AI_ATTEMPTED", "AI_FAILED" >>,
      << "AI_FAILED", "FALLBACK_USED" >>, << "SKIPPED_NO_AI", "FALLBACK_USED" >>,
      << "AI_SUCCEEDED", "COMPLETED" >>, << "FALLBACK_USED", "COMPLETED" >> }

\* C3: one engine call goes REQUESTED -> (AI_ATTEMPTED | SKIPPED_NO_AI) ->
\* (AI_SUCCEEDED | AI_FAILED) -> FALLBACK_USED -> COMPLETED: the deterministic
\* strategy runs only right after SKIPPED_NO_AI or AI_FAILED, never after
\* AI_SUCCEEDED, and at most once per call.
C3_StateMachine ==
    /\ fallback_runs <= 1
    /\ trace # << >> => trace[1] = "REQUESTED"
    /\ phase # "IDLE" => (trace # << >> /\ trace[Len(trace)] = phase)
    /\ \A i \in 1..(Len(trace) - 1) : << trace[i], trace[i + 1] >> \in AllowedTransitions
    /\ (fallback_runs = 1) <=> (\E i \in DOMAIN trace : trace[i] = "FALLBACK_USED")
    /\ \A i \in DOMAIN trace : trace[i] = "AI_SUCCEEDED" => fallback_runs = 0

C3_Witness ==
    /\ trace = << "REQUESTED", "AI_ATTEMPTED", "AI_FAILED", "FALLBACK_USED", "COMPLETED" >>
    /\ fallback_runs = 1

\* C4: a recommendation request whose generate_content call never answers
\* still completes (the stall is cut off and the fallback returned).
C4_StalledAICompletes == (phase = "REQUESTED") ~> (phase = "COMPLETED")

\* C5: a call with an empty product list fails with NoEligibleProducts and
\* returns no Recommendation.
C5_EmptyProductsRejected ==
    (Finished /\ e_products = << >>) =>
        (phase = "RAISED" /\ result.err = "NoEligibleProducts")

\* C6: an AI response that is JSON but not of the Recommendation shape is
\* treated as an AI failure: the caller receives the deterministic value.
C6_MalformedAIValueFallsBack ==
    (Finished /\ ai_reply.json /\ ai_reply.value.shape # "Recommendation") =>
        /\ result.err = "none"
        /\ result.val = _mock_generate_portfolio(e_profile, e_products, e_policies)

\* C7: whatever send_portfolio_recommendation does, the answer of
\* recommend_portfolio stays the success response with the computed
\* recommendation, and a send is attempted only after the engine completed
\* and with the value it returned.
C7_SendFailureKeepsResponse ==
    /\ bg_task # None =>
          (trace # << >> /\ trace[Len(trace)] = "COMPLETED"
             /\ bg_task.recommendation = result.val)
    /\ sent # None =>
          /\ trace # << >> /\ trace[Len(trace)] = "COMPLETED"
          /\ sent.recommendation = result.val
          /\ response = [status |-> "success", code |-> 200, user_id |-> user_id,
                         recommendation |-> result.val]

C7_Witness ==
    /\ sent # None /\ ~sent.success
    /\ response.status = "success"
    /\ response.recommendation.shape = "Recommendation"

\* C8: the gateway is LIVE exactly when its endpoints are configured in the
\* environment and MOCK otherwise, in particular MOCK when no endpoint URL is
\* set; the mode never changes afterwards.
C8_ModeFromEnvironment ==
    msa.use_mock = (policy_env \in {Unset, ""} \/ user_env \in {Unset, ""})

\* C9: a gateway in MOCK mode puts nothing on the network in any operation,
\* and its unfiltered product fetch returns a non-empty list.
C9_MockModeNoNetwork ==
    msa.use_mock =>
        /\ net_log = {}
        /\ last_fetch.op = "get_bank_products" =>
              (last_fetch.err = "none" /\ last_fetch.count > 0)

\* C10: in LIVE mode a fetch that meets a transport failure or a non-2xx
\* status fails with the typed SourceUnavailable error, and on a 2xx answer
\* it returns the normalised body.
C10_TypedSourceUnavailable ==
    last_fetch.live =>
        /\ last_fetch.reply \in {"transport", "status"} => last_fetch.err = "SourceUnavailable"
        /\ last_fetch.reply = "ok" => last_fetch.err = "none"

\* the user id is unknown to the user source: no mock profile has it, or
\* the user service answered 404
UnknownUser ==
    /\ last_fetch.op = "get_user_profile"
    /\ IF last_fetch.live
       THEN last_fetch.reply = "status" /\ last_fetch.code = 404
       ELSE \A i \in DOMAIN _get_mock_user_profiles :
               _get_mock_user_profiles[i]["userId"].n # user_id

\* C11: fetching the profile of an unknown user id fails with NotFound in
\* both modes, recommend_portfolio answers it with a 404, and no
\* default-filled profile is ever used.
C11_UnknownUserNotFound ==
    /\ UnknownUser => (last_fetch.err = "NotFound" /\ response.code = 404)
    /\ user_profile # None => user_profile # _convert_user_profile(<< >>).val

\* the value handed to the caller came from the deterministic strategy
FromFallback ==
    /\ phase = "COMPLETED"
    /\ \E i \in DOMAIN trace : trace[i] = "FALLBACK_USED"

\* the value handed to the caller is a well-typed recommendation
ReturnedRecommendation == phase = "COMPLETED" /\ result.val.shape = "Recommendation"

RECURSIVE SumTimesPct(_, _, _)
SumTimesPct(items, field, n) ==
    IF n = 0 THEN 0
    ELSE items[n][field] * items[n].allocation_percentage + SumTimesPct(items, field, n - 1)

\* C15: in a fallback recommendation expected_total_return is the sum of
\* rate_i x pct_i / 100 and total_risk_score the sum of risk_i x pct_i / 100,
\* rate_i and risk_i being those of the i-th product; for Scenario A the
\* amounts are 4,000,000 / 3,000,000 / 3,000,000, the return 4.7 and the
\* risk 1.9.
C15_FallbackAggregates ==
    FromFallback =>
        LET d == result.val.d
            items == d.portfolio_items
        IN /\ \A i \in DOMAIN items :
                 /\ items[i].expected_return = e_products[i].interest_rate
                 /\ items[i].risk_level = e_products[i].risk_level
           /\ d.expected_total_return = SumTimesPct(items, "expected_return", Len(items))
           /\ d.total_risk_score = SumTimesPct(items, "risk_level", Len(items))
           /\ ScenarioA =>
                 /\ [i \in 1..3 |-> items[i].investment_amount]
                       = << 4000000, 3000000, 3000000 >>
                 /\ d.expected_total_return = 4700
                 /\ d.total_risk_score = 190

C15_Witness ==
    /\ FromFallback /\ ScenarioA
    /\ Len(result.val.d.portfolio_items) = 3
    /\ result.val.d.expected_total_return = 35 * 40 + 40 * 30 + 70 * 30

\* C16: in every recommendation handed to the caller each item's
\* investment_amount is total_investment_amount x allocation_percentage / 100,
\* total_investment_amount being the profile's total assets.
C16_AmountMatchesPercentage ==
    ReturnedRecommendation =>
        LET d == result.val.d
        IN /\ "total_assets" \in DOMAIN e_profile
                 => d.total_investment_amount = e_profile.total_assets
           /\ \A i \in DOMAIN d.portfolio_items :
                 d.portfolio_items[i].investment_amount * 100
                    = d.total_investment_amount * d.portfolio_items[i].allocation_percentage

\* C19: with more than three products the fallback keeps the products
\* after the third: it takes up to five, in source order.
C19_FallbackKeepsLaterProducts ==
    (FromFallback /\ Len(e_products) > 3) =>
        LET items == result.val.d.portfolio_items
            n == IF Len(e_products) < 5 THEN Len(e_products) ELSE 5
        IN /\ Len(items) = n
           /\ \A i \in 1..n : items[i].product_name = e_products[i].product_name

\* C20: in every recommendation handed to the caller each item's risk_level
\* is the risk_level of the input product it was built from.
C20_RiskLevelFromProduct ==
    ReturnedRecommendation =>
        \A i \in DOMAIN result.val.d.portfolio_items :
            /\ i <= Len(e_products)
            /\ result.val.d.portfolio_items[i].risk_level = e_products[i].risk_level

\* C12: the normalisers are total: whatever the raw record holds (missing
\* keys, null values, strings in numeric fields) none of them raises.
C12_NormalizerTotal ==
    call.op \in {"normalize_product", "normalize_policy"} =>
        (call.msa.err = "none" /\ call.file.err = "none")

\* C13: analysing a user's portfolio that holds no item fails with the
\* empty-portfolio error (404, "no portfolio") and computes no analysis.
C13_EmptyPortfolioFails ==
    (call.op = "analyze_user_portfolio" /\ call.db_up /\ call.portfolio_items = << >>) =>
        /\ call.out.err = "HTTPException"
        /\ call.out.code = 404
        /\ call.out.detail = "no portfolio"
        /\ call.out.analysis = None

C13_Witness ==
    /\ call.op = "analyze_user_portfolio" /\ call.db_up /\ call.portfolio_items = << >>
    /\ call.out.code = 404

\* the product types of the items of the analysed portfolio
ItemTypes ==
    { BankProductTable[call.portfolio_items[i].bank_product_id].product_type :
         i \in { j \in DOMAIN call.portfolio_items :
                   call.portfolio_items[j].bank_product_id \in DOMAIN BankProductTable } }

\* C17: diversification_score is min(100, 20 x number of distinct product
\* types among the portfolio's items): 20 for one type, 100 for five and for
\* seven, never above 100.
C17_DiversificationScore ==
    (call.op = "analyze_user_portfolio" /\ call.out.err = "none") =>
        LET score == call.out.analysis.diversification_score
            n == Cardinality(ItemTypes)
        IN /\ score = (IF 20 * n < 100 THEN 20 * n ELSE 100)
           /\ score <= 100
           /\ n = 1 => score = 20
           /\ n = 5 => score = 100
           /\ n = 7 => score = 100

C17_Witness ==
    /\ call.op = "analyze_user_portfolio" /\ call.out.err = "none"
    /\ Cardinality(ItemTypes) = 7
    /\ call.out.analysis.diversification_score = 100

\* the sample policies, normalised, whose age range holds the age
PoliciesForAge(age) ==
    SelectSeq([i \in DOMAIN _get_mock_youth_policies |-> ConvertPolicy(_get_mock_youth_policies[i])],
              LAMBDA policy : policy.target_age_min <= age /\ age <= policy.target_age_max)

\* C18: for every supplied age, 0 and the bounds included, the policy fetch
\* applies the inclusive range test min <= age <= max (MOCK filters the
\* policies itself, LIVE hands the age to the policy service); without an
\* age nothing is filtered.
C18_AgeFilterInclusive ==
    (call.op = "get_youth_policies" /\ call.age # NoAge) =>
        IF call.live
        THEN call.params = [age |-> call.age]
        ELSE call.out.err = "none" /\ call.out.val = PoliciesForAge(call.age)


\* sum of the risk levels the risk analysis reads from the items (3 where
\* an item has none)
RECURSIVE RiskLevelSum(_, _)
RiskLevelSum(items, n) ==
    IF n = 0 THEN 0
    ELSE (IF "risk_level" \in DOMAIN items[n] THEN items[n].risk_level ELSE 3)
            + RiskLevelSum(items, n - 1)

\* the risk analysis took the deterministic path: no AI configured, or the
\* AI call raised or answered with text that is not JSON
DeterministicRisk ==
    /\ call.op = "analyze_portfolio_risk"
    /\ \/ ps.use_mock
       \/ call.reply.kind = "raise"
       \/ (call.reply.kind = "text" /\ ~call.reply.json)

\* C21: the deterministic risk analysis returns the fixed neutral report
\* (5 on every axis, "portfolio is empty" factor) for an empty item list and
\* otherwise the mean of the items' risk levels as the overall score and as
\* each of the four sub-scores; analyze_portfolio_risk returns this report
\* whenever the AI analysis fails.
C21_DeterministicRiskReport ==
    DeterministicRisk =>
        LET d == call.val.d
            items == call.portfolio_items
            overall == IF items = << >> THEN Score(5, 1)
                       ELSE Score(RiskLevelSum(items, Len(items)), Len(items))
        IN /\ call.done
           /\ call.val.shape = "RiskAnalysis"
           /\ d.overall_risk_score = overall
           /\ d.risk_breakdown = [credit_risk |-> overall, market_risk |-> overall,
                                  liquidity_risk |-> overall, concentration_risk |-> overall]
           /\ items = << >> => d.risk_factors = << "portfolio is empty" >>

C21_Witness ==
    /\ DeterministicRisk /\ ~ps.use_mock /\ call.reply = AIText
    /\ call.portfolio_items = << [risk_level |-> 1], [risk_level |-> 4] >>
    /\ call.val.d.overall_risk_score = Score(5, 2)


\* the analyser returned an analysis
Analysed == call.op = "analyze_user_portfolio" /\ call.out.err = "none"

\* the items of the analysed portfolio whose product row exists
KnownItems ==
    SelectSeq(call.portfolio_items,
              LAMBDA item : \E id \in DOMAIN BankProductTable : id = item.bank_product_id)

RECURSIVE TotalOf(_, _, _)
\* what: "value" (investment_amount), "return" (interest_rate x
\* investment_amount) or "risk" (risk_level x allocation_percentage), summed
\* over the first n items
TotalOf(what, items, n) ==
    IF n = 0 THEN 0
    ELSE LET item == items[n]
             product == BankProductTable[item.bank_product_id]
         IN (CASE what = "value" -> item.investment_amount
               [] what = "return" -> product.interest_rate * item.investment_amount
               [] what = "risk" -> product.risk_level * item.allocation_percentage)
            + TotalOf(what, items, n - 1)

\* C22: total_value sums investment_amount over all items, total_return and
\* risk_score are accumulated over the items whose product resolves only;
\* apart from total_value the analysis is that of the portfolio without its
\* unresolved items.
C22_UnresolvedCountsInValueOnly ==
    Analysed =>
        LET a == call.out.analysis
            all == call.portfolio_items
            known == KnownItems
            b == PortfolioAnalysis(known, BankProductTable)
        IN /\ a.total_value = TotalOf("value", all, Len(all))
           /\ a.total_return = TotalOf("return", known, Len(known))
           /\ a.risk_score = TotalOf("risk", known, Len(known))
           /\ a.total_value = b.total_value
                                + TotalOf("value", all, Len(all))
                                - TotalOf("value", known, Len(known))
           /\ [a EXCEPT !.total_value = 0] = [b EXCEPT !.total_value = 0]

C22_Witness ==
    /\ Analysed
    /\ call.portfolio_items = PortfolioRows(8, 9)
    /\ Len(KnownItems) = 1
    /\ call.out.analysis.total_value = 2000000
    /\ call.out.analysis.total_return = 30 * 1000000
    /\ call.out.analysis.risk_score = 50


\* C23: the labels and both recommendation strings follow the same
\* thresholds: overall_risk is low below 2, medium below 4 and high
\* otherwise, diversification is good exactly above 60, the diversification
\* string follows the diversification label, and the risk string follows the
\* overall_risk label (it changes at 2 or at 4 and nowhere else, so two
\* portfolios with the same label get the same risk string).
C23_StringsFollowLabelThresholds ==
    Analysed =>
        LET a == call.out.analysis
        IN /\ a.risk_analysis.overall_risk =
                 (IF a.risk_score < 200 THEN "low"
                  ELSE IF a.risk_score < 400 THEN "medium" ELSE "high")
           /\ a.risk_analysis.diversification = "good" <=> a.diversification_score > 60
           /\ a.recommendations[1] = "well diversified" <=> a.diversification_score > 60
           /\ \A other \in Portfolios \ { << >> } :
                 LET b == PortfolioAnalysis(other, BankProductTable)
                 IN b.risk_analysis.overall_risk = a.risk_analysis.overall_risk
                       => b.recommendations[2] = a.recommendations[2]


\* the value of the first key of keys that the record has with a value
\* other than null, default where it has none
FirstPresent(p, keys, default) ==
    LET present == { i \in DOMAIN keys : keys[i] \in DOMAIN p /\ p[keys[i]] # Null }
    IN IF present = {} THEN default
       ELSE p[keys[CHOOSE i \in present : \A j \in present : i <= j]]

\* C24: every canonical field is the first alias that is present and not
\* null: a present 0 or empty string wins over later aliases and over the
\* default (stated for the fields whose claimed value can be converted).
C24_FirstPresentAliasWins ==
    /\ call.op = "normalize_product" =>
          LET rate == FirstPresent(call.arg, << "interestRate", "rate" >>, IntV(0))
              risk == FirstPresent(call.arg, << "riskLevel", "risk" >>, IntV(1))
          IN /\ (call.file.err = "none" /\ NumOk(rate) /\ NumOk(risk)) =>
                   /\ call.file.val.interest_rate = rate.n
                   /\ call.file.val.risk_level = risk.n
                   /\ call.file.val.product_code =
                         FirstPresent(call.arg, << "productId", "id", "code" >>, StrV(""))
             /\ call.mock.interestRate =
                   FirstPresent(call.arg, << "interestRate", "rate", "yield" >>, IntV(30))
             /\ call.mock.riskLevel =
                   FirstPresent(call.arg, << "riskLevel", "risk" >>, IntV(2))
    /\ call.op = "normalize_policy" =>
          LET min == FirstPresent(call.arg, << "targetAgeMin", "sprtTrgtMinAge" >>, IntV(0))
          IN /\ (call.file.err = "none" /\ NumOk(min)) => call.file.val.target_age_min = min.n
             /\ (call.mock.err = "none" /\ NumOk(min)) => call.mock.val.targetAgeMin.n = min.n


\* the record has none of the keys
Lacks(p, keys) == \A k \in keys : k \notin DOMAIN p

\* C25: a product record without a risk level gets risk level 2 on every
\* normalisation path, a policy record without age bounds gets the range
\* [0, 0] and is not returned for a user aged 25, and an absent numeric
\* field becomes 0.
C25_DefaultsWhenAbsent ==
    /\ (call.op = "normalize_product" /\ Lacks(call.arg, {"riskLevel", "risk"})) =>
          /\ call.mock.riskLevel = IntV(2)
          /\ call.file.err = "none" => call.file.val.risk_level = 2
          /\ call.msa.err = "none" => call.msa.val[1].risk_level = 2
    /\ (call.op = "normalize_product" /\ Lacks(call.arg, {"interestRate", "rate", "yield"})) =>
          /\ call.mock.interestRate = IntV(0)
          /\ call.file.err = "none" => call.file.val.interest_rate = 0
          /\ call.msa.err = "none" => call.msa.val[1].interest_rate = 0
    /\ (call.op = "normalize_policy"
          /\ Lacks(call.arg, {"targetAgeMin", "sprtTrgtMinAge", "targetAgeMax", "sprtTrgtMaxAge"})) =>
          /\ call.mock.err = "none"
          /\ call.mock.val.targetAgeMin = IntV(0) /\ call.mock.val.targetAgeMax = IntV(0)
          /\ SelectAge(<< call.mock.val >>, 25) = << >>
          /\ call.file.err = "none"
          /\ call.file.val.target_age_min = 0 /\ call.file.val.target_age_max = 0
          /\ call.msa.err = "none"
          /\ call.msa.val[1].target_age_min = 0 /\ call.msa.val[1].target_age_max = 0


\* the container of the loaded document: the "result" envelope where the
\* document has one
Unwrapped == IF call.raw.enveloped THEN call.raw.result ELSE call.raw.rest

\* the first of the keys whose value in the unwrapped container is a
\* non-empty list, as a list of records (empty where there is none)
FirstNonEmptyList(keys) ==
    LET found == { i \in DOMAIN keys :
                     /\ keys[i] \in DOMAIN Unwrapped
                     /\ Unwrapped[keys[i]].kind = "list"
                     /\ Unwrapped[keys[i]].items # << >> }
    IN IF found = {} THEN << >>
       ELSE Unwrapped[keys[CHOOSE i \in found : \A j \in found : i <= j]].items

\* a document was loaded whose "result" envelope, if any, is not empty
Loaded == call.op = "load_document" /\ (call.raw.enveloped => DOMAIN call.raw.result # {})

\* every record under a bank candidate key is a product record
OnlyProducts ==
    \A i \in DOMAIN BankKeys :
        (BankKeys[i] \in DOMAIN Unwrapped /\ Unwrapped[BankKeys[i]].kind = "list") =>
            \A j \in DOMAIN Unwrapped[BankKeys[i]].items :
                Unwrapped[BankKeys[i]].items[j] \in {ProductA, ProductB}

\* C26: after unwrapping "result", the list taken is the first candidate key
\* in priority order that holds a non-empty list: an empty list under an
\* earlier key does not hide a later non-empty one (bank paths: stated for
\* documents whose candidate lists hold product records).
C26_FirstNonEmptyListWins ==
    Loaded =>
        /\ call.policy_file.items = FirstNonEmptyList(PolicyKeys)
        /\ call.policy_mock.items = FirstNonEmptyList(PolicyKeys)
        /\ OnlyProducts =>
              /\ call.bank_file.items = FirstNonEmptyList(BankKeys)
              /\ call.bank_mock.items = FirstNonEmptyList(BankKeys)


\* the lists of the unwrapped container
ListsOf(container) == { k \in DOMAIN container : container[k].kind = "list" }

\* the loaded document holds records, and none of them has a
\* product-specific key
HoldsPoliciesOnly ==
    /\ Loaded
    /\ \E k \in ListsOf(Unwrapped) : Unwrapped[k].items # << >>
    /\ \A k \in ListsOf(Unwrapped) : \A j \in DOMAIN Unwrapped[k].items :
          \A key \in {"productId", "productName", "bankName", "interestRate", "productType"} :
              key \notin DOMAIN Unwrapped[k].items[j]

\* C27: a bank document that holds policy records only yields an empty
\* product list: no policy record normalised as a product, no other
\* products in its place.
C27_PolicyRecordsYieldNoProducts ==
    HoldsPoliciesOnly =>
        /\ call.bank_file.err = "none" /\ call.bank_file.val = << >>
        /\ call.bank_mock.val = << >>


\* every portfolio row references a row of bank_products
ItemsReferenceProducts ==
    \A i \in DOMAIN user_portfolios :
        \E j \in DOMAIN bank_products : bank_products[j].id = user_portfolios[i].bank_product_id

\* a request to the database API removes no product row and changes no
\* product id, adds a portfolio row only for an existing product, and a
\* successful delete changes nothing but is_active of the addressed row
DbStep ==
    /\ Len(bank_products') >= Len(bank_products)
    /\ \A i \in DOMAIN bank_products : bank_products'[i].id = bank_products[i].id
    /\ user_portfolios' # user_portfolios =>
          /\ Len(user_portfolios') = Len(user_portfolios) + 1
          /\ SubSeq(user_portfolios', 1, Len(user_portfolios)) = user_portfolios
          /\ \E j \in DOMAIN bank_products :
                bank_products[j].id = user_portfolios'[Len(user_portfolios')].bank_product_id
    /\ (db_response'.op = "delete_bank_product" /\ db_response'.code = 200) =>
          /\ DOMAIN bank_products' = DOMAIN bank_products
          /\ \A i \in DOMAIN bank_products :
                \/ bank_products'[i] = bank_products[i]
                \/ bank_products'[i] = [bank_products[i] EXCEPT !.is_active = FALSE]

FailedAt(i) ==
    /\ ~call.self.use_mock
    /\ call.replies[i].kind = "raise" \/ (call.replies[i].kind = "text" /\ ~call.replies[i].json)

\* the key that carries the code of a record of the preprocessing call
CodeKey == IF call.kind = "bank_products" THEN "product_code" ELSE "policy_code"

TaskOrder ==
    { << >>, << "fetch" >>, << "fetch", "preprocess" >>, << "fetch", "preprocess", "send" >> }

\* C29: preprocess_products_task takes its steps in the order fetch,
\* preprocess, send; it sends at most once, and only after a non-empty
\* fetch and a completed preprocessing; an empty fetch or a failed step
\* ends the task without a send, and the task lets no exception out.
C29_TaskOrder ==
    call.op = "preprocess_products_task" =>
        /\ call.steps \in TaskOrder
        /\ call.sends <= 1
        /\ call.sends = 1 <=> (call.steps = << "fetch", "preprocess", "send" >>)
        /\ call.sends = 1 =>
              /\ call.raw_products # << >>
              /\ Len(call.processed_products) = Len(call.raw_products)
        /\ call.outcome \in {"empty", "failed"} =>
              /\ call.sends = 0
              /\ call.steps = << "fetch" >>
              /\ \A e \in net_log : e.path # "/api/v1/bank-products/processed"
        /\ call.outcome = "empty" => call.raw_products = << >>
        /\ call.outcome \in {"running", "empty", "failed", "sent", "send_failed"}
        /\ call.step = "done" <=> pc = "responded"

C29_Witness ==
    /\ call.op = "preprocess_products_task" /\ ~msa.use_mock /\ ~call.self.use_mock
    /\ call.outcome = "send_failed" /\ call.sends = 1
    /\ Len(call.raw_products) = 3
    /\ \E e \in net_log : e.path = "/api/v1/bank-products/processed"

====
